---- MODULE Spec2Model ----
(***************************************************************************)
(* Limit order book, matching engine, risk gate and order ingress of the   *)
(* trading interface (src/lob/order_book.py, src/risk/risk_manager.py,     *)
(* src/interface/trading_interface.py).                                    *)
(*                                                                         *)
(* Prices are integers counted in raw units; one tick is PriceScale raw    *)
(* units, so a request price may fall between two ticks and _round_price   *)
(* has something to do.  A price on the book is always a multiple of       *)
(* PriceScale.  Time is counted in steps of 1/TimeResolution second.       *)
(***************************************************************************)
EXTENDS Integers, Sequences, FiniteSets, TLC

\* ------------------------------------------------------------------ bounds
MaxOrders == 3        \* orders ever passed to add_order
MaxCancels == 1       \* cancels that succeed
MaxTime == 4          \* clock steps the wall clock runs for
MaxSize == 2          \* largest size a request or a synthetic order asks for
PriceSpan == 2        \* request prices range over BasePrice .. BasePrice + PriceSpan
PriceScale == 2       \* raw price units per tick
TimeResolution == 3   \* clock steps per second

\* risk limits (RiskLimits is configuration; scaled down from the defaults)
max_position == 3
max_order_rate == 2
max_order_size == 3
max_daily_loss == 1   \* in raw price units times size

\* ------------------------------------------------------- program constants
price_deviation_den == 20      \* price_deviation_pct = 0.05 = 1 / 20

None == 0 - 1                  \* Python None where a price is expected
BasePrice == 10 * PriceScale

Clients == {"A"}
SYNTHETIC == "SYNTHETIC"
Sides == {"buy", "sell"}
Types == {"limit", "market"}
RequestPrices == {None} \cup (BasePrice .. BasePrice + PriceSpan)
RequestSizes == 0 .. max_order_size + 1
UnknownId == 0

Min(a, b) == IF a <= b THEN a ELSE b
Abs(x) == IF x < 0 THEN 0 - x ELSE x
SetMax(S) == CHOOSE x \in S : \A y \in S : y <= x
SetMin(S) == CHOOSE x \in S : \A y \in S : x <= y

\* mutant of sorted: the order is the wrong way round
RECURSIVE sorted_backwards(_, _)
sorted_backwards(S, reverse) ==
    IF S = {} THEN <<>>
    ELSE LET x == IF reverse THEN SetMin(S) ELSE SetMax(S)
         IN <<x>> \o sorted_backwards(S \ {x}, reverse)

\* sorted(keys, reverse=...)
RECURSIVE sorted(_, _)
sorted(S, reverse) ==
    IF S = {} THEN <<>>
    ELSE LET x == IF reverse THEN SetMax(S) ELSE SetMin(S)
         IN <<x>> \o sorted(S \ {x}, reverse)

\* a dict with one key deleted / one key set
DictDel(d, k) == [x \in DOMAIN d \ {k} |-> d[x]]
DictSet(d, k, v) == [x \in DOMAIN d \cup {k} |-> IF x = k THEN v ELSE d[x]]

\* ------------------------------------------------------------ order book
\* LimitOrderBook._round_price: round(price / tick_size) * tick_size, where
\* Python's round() takes a tie to the even integer.
round_price(price) ==
    LET q == price \div PriceScale
        r == price % PriceScale
        n == IF 2 * r < PriceScale THEN q
             ELSE IF 2 * r > PriceScale THEN q + 1
             ELSE IF q % 2 = 0 THEN q ELSE q + 1
    IN n * PriceScale

best_bid(L) == IF DOMAIN L.bids = {} THEN None ELSE SetMax(DOMAIN L.bids)
best_ask(L) == IF DOMAIN L.asks = {} THEN None ELSE SetMin(DOMAIN L.asks)

\* mutant of mid_price2: the last trade is not fallen back on
mid_price2_no_fallback(L) ==
    IF best_bid(L) # None /\ best_ask(L) # None
    THEN best_bid(L) + best_ask(L)
    ELSE None

\* LimitOrderBook.mid_price, doubled so that (bb + ba) / 2.0 stays an integer
mid_price2(L) ==
    IF best_bid(L) # None /\ best_ask(L) # None
    THEN best_bid(L) + best_ask(L)
    ELSE IF L.last_trade_price = None THEN None ELSE 2 * L.last_trade_price

\* mutant of queue_total: the head entry stands for the level
queue_total_head(queue) ==
    IF queue = <<>> THEN 0 ELSE Head(queue)[2]

\* sum(size for _, size in queue)
RECURSIVE queue_total(_)
queue_total(queue) ==
    IF queue = <<>> THEN 0 ELSE Head(queue)[2] + queue_total(Tail(queue))

\* mutant of get_depth: both sides are sorted upwards
get_depth_ascending(L, side, levels) ==
    LET book == IF side = "buy" THEN L.bids ELSE L.asks
        all_prices == sorted(DOMAIN book, FALSE)
        sorted_prices == SubSeq(all_prices, 1, Min(levels, Len(all_prices)))
    IN [i \in 1 .. Len(sorted_prices) |->
           <<sorted_prices[i], queue_total(book[sorted_prices[i]])>>]

\* LimitOrderBook.get_depth, for levels >= 0
get_depth(L, side, levels) ==
    LET book == IF side = "buy" THEN L.bids ELSE L.asks
        all_prices == sorted(DOMAIN book, side = "buy")
        sorted_prices == SubSeq(all_prices, 1, Min(levels, Len(all_prices)))
    IN [i \in 1 .. Len(sorted_prices) |->
           <<sorted_prices[i], queue_total(book[sorted_prices[i]])>>]

\* LimitOrderBook.spread
spread(L) ==
    IF best_bid(L) # None /\ best_ask(L) # None
    THEN best_ask(L) - best_bid(L)
    ELSE None

SnapshotLevels == 10           \* get_book_snapshot(levels=10)

\* LimitOrderBook.get_book_snapshot at time t (mid is carried doubled)
get_book_snapshot(L, t) ==
    [bids |-> get_depth(L, "buy", SnapshotLevels),
     asks |-> get_depth(L, "sell", SnapshotLevels),
     best_bid |-> best_bid(L), best_ask |-> best_ask(L),
     mid2 |-> mid_price2(L), spread |-> spread(L), timestamp |-> t]

Fill(order_id, client_id, side, price, size) ==
    [order_id |-> order_id, client_id |-> client_id, side |-> side,
     price |-> price, size |-> size]

Order(order_id, client_id, side, type, price, size) ==
    [order_id |-> order_id, client_id |-> client_id, side |-> side,
     type |-> type, price |-> price, size |-> size,
     remaining_size |-> 0, status |-> "pending"]

opposite_book(L, side) == IF side = "buy" THEN L.asks ELSE L.bids
set_opposite_book(L, side, book) ==
    IF side = "buy" THEN [L EXCEPT !.asks = book] ELSE [L EXCEPT !.bids = book]

\* mutant of maker_status: the filled branch is lost
maker_status_never_filled(left) == "partially_filled"

\* the status a maker gets from a match that leaves it `left`
maker_status(left) == IF left = 0 THEN "filled" ELSE "partially_filled"

\* mutant of updated_queue: a maker filled in part goes to the tail
updated_queue_requeued(queue, other_order_id, left) ==
    IF left = 0 THEN Tail(queue)
    ELSE Tail(queue) \o <<<<other_order_id, left>>>>

\* mutant of updated_queue: the head entry keeps its old size
updated_queue_stale(queue, other_order_id, left) ==
    IF left = 0 THEN Tail(queue) ELSE queue

\* the maker's queue after a match: popleft() when the maker is done,
\* otherwise the head entry is rewritten with the maker's remaining size
updated_queue(queue, other_order_id, left) ==
    IF left = 0 THEN Tail(queue)
    ELSE <<<<other_order_id, left>>>> \o Tail(queue)

\* mutants of recorded_fills: the maker's fill is not recorded; the maker's
\* fill is recorded first
recorded_fills_taker_only(history, fill1, fill2) == Append(history, fill1)
recorded_fills_maker_first(history, fill1, fill2) == history \o <<fill2, fill1>>

\* self.fills after the two fills of a match are appended
recorded_fills(history, fill1, fill2) == history \o <<fill1, fill2>>

\* mutant of fill_price: a taker with a limit trades at its own price
fill_price_taker(price, order) ==
    IF order.price # None THEN order.price ELSE price

\* price= of both fills: the key of the level being walked
fill_price(price, order) == price

\* mutant of traded: only the first trade is cached
traded_first_only(L, price, fill_size) ==
    IF L.last_trade_price = None
    THEN [L EXCEPT !.last_trade_price = price, !.last_trade_size = fill_size]
    ELSE L

\* "Update last trade"
traded(L, price, fill_size) ==
    [L EXCEPT !.last_trade_price = price, !.last_trade_size = fill_size]

\* one pass of the inner while loop of _match_market_order on the queue at
\* `price`: the head entry is dropped when its order is unknown, otherwise
\* the taker trades with it.  `out` is the list of fills to return.
match_step(L, oid, price, out) ==
    LET order == L.orders[oid]
        book == opposite_book(L, order.side)
        queue == book[price]
        other_order_id == Head(queue)[1]
    IN IF other_order_id \notin DOMAIN L.orders
       THEN [lob |-> set_opposite_book(L, order.side,
                        [book EXCEPT ![price] = Tail(queue)]),
             fills |-> out]
       ELSE
       LET other_order == L.orders[other_order_id]
           fill_size == Min(order.remaining_size, other_order.remaining_size)
           fill1 == Fill(oid, order.client_id, order.side,
                         fill_price(price, order), fill_size)
           fill2 == Fill(other_order_id, other_order.client_id,
                         other_order.side, fill_price(price, order), fill_size)
           orders1 == [L.orders EXCEPT ![oid].remaining_size = @ - fill_size]
           orders2 == [orders1 EXCEPT
                         ![other_order_id].remaining_size = @ - fill_size]
           other_left2 == orders2[other_order_id].remaining_size
           orders3 == [orders2 EXCEPT ![other_order_id].status =
                         maker_status(other_left2)]
           queue1 == updated_queue(queue, other_order_id, other_left2)
           L1 == traded([set_opposite_book(L, order.side,
                                           [book EXCEPT ![price] = queue1])
                           EXCEPT !.orders = orders3,
                                  !.fills = recorded_fills(L.fills, fill1,
                                                           fill2)],
                        price, fill_size)
       IN [lob |-> L1, fills |-> Append(out, fill1)]

\* mutant of match_again: the loop gives up after one trade
match_again_once(r, oid, prices) == r

\* the for loop over the sorted opposite prices; match_again is the
\* next pass of the while loop on what match_step left
RECURSIVE match_loop(_, _, _, _)
RECURSIVE match_again(_, _, _)
match_loop(L, oid, prices, out) ==
    IF prices = <<>> \/ L.orders[oid].remaining_size <= 0
    THEN [lob |-> L, fills |-> out]
    ELSE IF opposite_book(L, L.orders[oid].side)[Head(prices)] = <<>>
    THEN match_loop(L, oid, Tail(prices), out)
    ELSE match_again(match_step(L, oid, Head(prices), out), oid, prices)
match_again(r, oid, prices) == match_loop(r.lob, oid, prices, r.fills)

\* mutant of clean_empty: the emptied levels stay
clean_empty_skipped(book) == book

\* "Clean empty queues"
clean_empty(book) == [p \in {x \in DOMAIN book : book[x] # <<>>} |-> book[p]]

\* mutant of match_finish: the taker is never marked filled
match_finish_unfilled(r, oid) ==
    LET side == r.lob.orders[oid].side
        L1 == set_opposite_book(r.lob, side,
                                clean_empty(opposite_book(r.lob, side)))
    IN [lob |-> [L1 EXCEPT !.orders[oid].status = "partially_filled"],
        fills |-> r.fills]

\* the end of _match_market_order, on what the loop left: the emptied
\* queues are cleaned and the taker gets its status
match_finish(r, oid) ==
    LET side == r.lob.orders[oid].side
        L1 == set_opposite_book(r.lob, side,
                                clean_empty(opposite_book(r.lob, side)))
        L2 == [L1 EXCEPT !.orders[oid].status =
                 IF L1.orders[oid].remaining_size = 0 THEN "filled"
                 ELSE "partially_filled"]
    IN [lob |-> L2, fills |-> r.fills]

\* mutant of match_market_order: an empty opposite side is walked like any
match_market_order_no_reject(L, oid) ==
    match_finish(match_loop(L, oid,
                            sorted(DOMAIN opposite_book(L, L.orders[oid].side),
                                   L.orders[oid].side = "sell"),
                            <<>>), oid)

\* LimitOrderBook._match_market_order
match_market_order(L, oid) ==
    LET order == L.orders[oid]
        book == opposite_book(L, order.side)
    IN IF DOMAIN book = {}
       THEN [lob |-> [L EXCEPT !.orders[oid].status = "rejected"],
             fills |-> <<>>]
       ELSE match_finish(match_loop(L, oid,
                                    sorted(DOMAIN book, order.side = "sell"),
                                    <<>>), oid)

\* mutant of crosses: an order at the best opposite price does not match
crosses_strict(side, price, book) ==
    IF side = "buy" THEN price > SetMin(DOMAIN book)
    ELSE price < SetMax(DOMAIN book)

\* the price-cross test of _add_limit_order on a non-empty opposite book
crosses(side, price, book) ==
    IF side = "buy" THEN price >= SetMin(DOMAIN book)
    ELSE price <= SetMax(DOMAIN book)

\* mutant of rest_remaining: the rested order is active whatever it traded
rest_remaining_active(r, oid) ==
    LET L1 == r.lob
        order == L1.orders[oid]
        own == IF order.side = "buy" THEN L1.bids ELSE L1.asks
        queue == IF order.price \in DOMAIN own THEN own[order.price] ELSE <<>>
        own1 == DictSet(own, order.price,
                        Append(queue, <<oid, order.remaining_size>>))
        L2 == IF order.side = "buy" THEN [L1 EXCEPT !.bids = own1]
              ELSE [L1 EXCEPT !.asks = own1]
        L3 == [L2 EXCEPT !.orders[oid].status = "active"]
    IN [lob |-> IF order.remaining_size > 0 THEN L3 ELSE L1,
        fills |-> r.fills]

\* the end of _add_limit_order, on what the match left: "Add remaining
\* size to book" at the order's rounded price
rest_remaining(r, oid) ==
    LET L1 == r.lob
        order == L1.orders[oid]
        own == IF order.side = "buy" THEN L1.bids ELSE L1.asks
        queue == IF order.price \in DOMAIN own THEN own[order.price] ELSE <<>>
        own1 == DictSet(own, order.price,
                        Append(queue, <<oid, order.remaining_size>>))
        L2 == IF order.side = "buy" THEN [L1 EXCEPT !.bids = own1]
              ELSE [L1 EXCEPT !.asks = own1]
        L3 == [L2 EXCEPT !.orders[oid].status =
                 IF @ = "pending" THEN "active" ELSE @]
    IN [lob |-> IF order.remaining_size > 0 THEN L3 ELSE L1,
        fills |-> r.fills]

\* LimitOrderBook._add_limit_order
add_limit_order(L, oid) ==
    LET side == L.orders[oid].side
        price == round_price(L.orders[oid].price)
        L0 == [L EXCEPT !.orders[oid].price = price]
        book == opposite_book(L0, side)
    IN rest_remaining(IF DOMAIN book # {} /\ crosses(side, price, book)
                      THEN match_market_order(L0, oid)
                      ELSE [lob |-> L0, fills |-> <<>>], oid)

\* LimitOrderBook.add_order.  A limit order without a price makes
\* _round_price raise TypeError after the order has been registered.
add_order(L, order) ==
    LET oid == order.order_id
        L0 == [L EXCEPT !.orders =
                 DictSet(L.orders, oid,
                         [order EXCEPT !.remaining_size = order.size])]
    IN IF order.type = "market"
       THEN [raised |-> FALSE] @@ match_market_order(L0, oid)
       ELSE IF order.price = None
       THEN [raised |-> TRUE, lob |-> L0, fills |-> <<>>]
       ELSE [raised |-> FALSE] @@ add_limit_order(L0, oid)

\* mutant of cancel_order: the whole level of the order goes
cancel_order_drops_level(L, order_id) ==
    IF order_id \notin DOMAIN L.orders THEN [lob |-> L, ok |-> FALSE]
    ELSE IF L.orders[order_id].status \in {"filled", "canceled"}
    THEN [lob |-> L, ok |-> FALSE]
    ELSE [lob |-> [L EXCEPT !.orders[order_id].status = "canceled",
                            !.bids = IF L.orders[order_id].side = "buy"
                                     THEN DictDel(@, L.orders[order_id].price)
                                     ELSE @,
                            !.asks = IF L.orders[order_id].side = "sell"
                                     THEN DictDel(@, L.orders[order_id].price)
                                     ELSE @],
          ok |-> TRUE]

\* mutant of cancel_order: the add that came before is not undone for a
\* level the order has to itself
cancel_order_keeps_level(L, order_id) ==
    IF order_id \notin DOMAIN L.orders THEN [lob |-> L, ok |-> FALSE]
    ELSE
    LET order == L.orders[order_id]
        book == IF order.side = "buy" THEN L.bids ELSE L.asks
        price == order.price
        book1 == IF price \in DOMAIN book
                 THEN [book EXCEPT ![price] =
                         SelectSeq(@, LAMBDA e : e[1] # order_id)]
                 ELSE book
        L1 == IF order.side = "buy" THEN [L EXCEPT !.bids = book1]
              ELSE [L EXCEPT !.asks = book1]
    IN IF order.status \in {"filled", "canceled"}
       THEN [lob |-> L, ok |-> FALSE]
       ELSE [lob |-> [L1 EXCEPT !.orders[order_id].status = "canceled"],
             ok |-> TRUE]

\* mutant of cancel_order: the queue is not rebuilt
cancel_order_keeps_entry(L, order_id) ==
    IF order_id \notin DOMAIN L.orders THEN [lob |-> L, ok |-> FALSE]
    ELSE IF L.orders[order_id].status \in {"filled", "canceled"}
    THEN [lob |-> L, ok |-> FALSE]
    ELSE [lob |-> [L EXCEPT !.orders[order_id].status = "canceled"],
          ok |-> TRUE]

\* mutant of cancel_order: the status of the order is not looked at
cancel_order_unchecked(L, order_id) ==
    [lob |-> [L EXCEPT !.orders[order_id].status = "canceled"],
     ok |-> order_id \in DOMAIN L.orders]

\* LimitOrderBook.cancel_order
cancel_order(L, order_id) ==
    IF order_id \notin DOMAIN L.orders THEN [lob |-> L, ok |-> FALSE]
    ELSE
    LET order == L.orders[order_id]
        book == IF order.side = "buy" THEN L.bids ELSE L.asks
        price == order.price
        new_queue == SelectSeq(book[price], LAMBDA e : e[1] # order_id)
        book1 == IF price \in DOMAIN book
                 THEN IF new_queue # <<>> THEN [book EXCEPT ![price] = new_queue]
                      ELSE DictDel(book, price)
                 ELSE book
        L1 == IF order.side = "buy" THEN [L EXCEPT !.bids = book1]
              ELSE [L EXCEPT !.asks = book1]
    IN IF order.status \in {"filled", "canceled"}
       THEN [lob |-> L, ok |-> FALSE]
       ELSE [lob |-> [L1 EXCEPT !.orders[order_id].status = "canceled"],
             ok |-> TRUE]

\* ------------------------------------------------------------ risk manager
ClientRiskState ==
    [position |-> 0, realized_pnl |-> 0, unrealized_pnl |-> 0,
     daily_pnl |-> 0, order_count |-> 0, last_order_time |-> 0,
     is_blocked |-> FALSE]

\* RiskManager.get_or_create_state (the dict after the call)
get_or_create_state(cs, client_id) ==
    IF client_id \in DOMAIN cs THEN cs
    ELSE DictSet(cs, client_id, ClientRiskState)

\* mutant of check_order_rate: the second is counted from the first request
\* of the window, last_order_time is not moved by the later ones
check_order_rate_fixed_window(cs, t, client_id) ==
    LET cs0 == get_or_create_state(cs, client_id)
        reset == t - cs0[client_id].last_order_time >= TimeResolution
        cs1 == IF reset
               THEN [cs0 EXCEPT ![client_id].order_count = 0,
                                ![client_id].last_order_time = t]
               ELSE cs0
    IN IF cs1[client_id].order_count >= max_order_rate
       THEN [valid |-> FALSE, reason |-> "rate", states |-> cs1]
       ELSE [valid |-> TRUE, reason |-> "",
             states |-> [cs1 EXCEPT ![client_id].order_count = @ + 1]]

\* RiskManager.check_order_rate
check_order_rate(cs, t, client_id) ==
    LET cs0 == get_or_create_state(cs, client_id)
        cs1 == IF t - cs0[client_id].last_order_time >= TimeResolution
               THEN [cs0 EXCEPT ![client_id].order_count = 0]
               ELSE cs0
    IN IF cs1[client_id].order_count >= max_order_rate
       THEN [valid |-> FALSE, reason |-> "rate", states |-> cs1]
       ELSE [valid |-> TRUE, reason |-> "",
             states |-> [cs1 EXCEPT ![client_id].order_count = @ + 1,
                                    ![client_id].last_order_time = t]]

\* RiskManager.check_position_limit
check_position_limit(cs, client_id, side, size) ==
    LET position_delta == IF side = "buy" THEN size ELSE 0 - size
        new_position == cs[client_id].position + position_delta
    IN Abs(new_position) <= max_position

\* RiskManager.check_order_size
check_order_size(size) == ~(size > max_order_size) /\ ~(size <= 0)

\* RiskManager.check_price_bounds, on the doubled mid:
\* abs(price - mid) / mid > price_deviation_pct fails the check
check_price_bounds(price, mid2) ==
    IF mid2 = None THEN TRUE
    ELSE ~(price_deviation_den * Abs(2 * price - mid2) > mid2)

\* RiskManager.check_daily_loss
check_daily_loss(cs, client_id) ==
    LET total_pnl == cs[client_id].realized_pnl + cs[client_id].unrealized_pnl
    IN IF total_pnl < 0 - max_daily_loss
       THEN [valid |-> FALSE,
             states |-> [cs EXCEPT ![client_id].is_blocked = TRUE]]
       ELSE [valid |-> TRUE, states |-> cs]

\* mutant of validate_order: the rate is counted before the blocked flag is
\* looked at
validate_order_rate_first(cs, t, client_id, side, size, price, mid2) ==
    LET cs0 == get_or_create_state(cs, client_id)
        rate == check_order_rate(cs0, t, client_id)
        loss == check_daily_loss(rate.states, client_id)
    IN IF ~rate.valid
       THEN [valid |-> FALSE, reason |-> "rate", states |-> rate.states]
       ELSE IF cs0[client_id].is_blocked
       THEN [valid |-> FALSE, reason |-> "blocked", states |-> rate.states]
       ELSE IF ~check_order_size(size)
       THEN [valid |-> FALSE, reason |-> "size", states |-> rate.states]
       ELSE IF ~check_position_limit(rate.states, client_id, side, size)
       THEN [valid |-> FALSE, reason |-> "position", states |-> rate.states]
       ELSE IF price # None /\ mid2 # None /\ ~check_price_bounds(price, mid2)
       THEN [valid |-> FALSE, reason |-> "price", states |-> rate.states]
       ELSE IF ~loss.valid
       THEN [valid |-> FALSE, reason |-> "daily_loss", states |-> loss.states]
       ELSE [valid |-> TRUE, reason |-> "", states |-> loss.states]

\* mutant of validate_order: the daily loss is looked at before the size
validate_order_loss_first(cs, t, client_id, side, size, price, mid2) ==
    LET cs0 == get_or_create_state(cs, client_id)
        rate == check_order_rate(cs0, t, client_id)
        loss == check_daily_loss(rate.states, client_id)
    IN IF cs0[client_id].is_blocked
       THEN [valid |-> FALSE, reason |-> "blocked", states |-> cs0]
       ELSE IF ~rate.valid
       THEN [valid |-> FALSE, reason |-> "rate", states |-> rate.states]
       ELSE IF ~loss.valid
       THEN [valid |-> FALSE, reason |-> "daily_loss", states |-> loss.states]
       ELSE IF ~check_order_size(size)
       THEN [valid |-> FALSE, reason |-> "size", states |-> rate.states]
       ELSE IF ~check_position_limit(rate.states, client_id, side, size)
       THEN [valid |-> FALSE, reason |-> "position", states |-> rate.states]
       ELSE IF price # None /\ mid2 # None /\ ~check_price_bounds(price, mid2)
       THEN [valid |-> FALSE, reason |-> "price", states |-> rate.states]
       ELSE [valid |-> TRUE, reason |-> "", states |-> loss.states]

\* RiskManager.validate_order
validate_order(cs, t, client_id, side, size, price, mid2) ==
    LET cs0 == get_or_create_state(cs, client_id)
        rate == check_order_rate(cs0, t, client_id)
        loss == check_daily_loss(rate.states, client_id)
    IN IF cs0[client_id].is_blocked
       THEN [valid |-> FALSE, reason |-> "blocked", states |-> cs0]
       ELSE IF ~rate.valid
       THEN [valid |-> FALSE, reason |-> "rate", states |-> rate.states]
       ELSE IF ~check_order_size(size)
       THEN [valid |-> FALSE, reason |-> "size", states |-> rate.states]
       ELSE IF ~check_position_limit(rate.states, client_id, side, size)
       THEN [valid |-> FALSE, reason |-> "position", states |-> rate.states]
       ELSE IF price # None /\ mid2 # None /\ ~check_price_bounds(price, mid2)
       THEN [valid |-> FALSE, reason |-> "price", states |-> rate.states]
       ELSE IF ~loss.valid
       THEN [valid |-> FALSE, reason |-> "daily_loss", states |-> loss.states]
       ELSE [valid |-> TRUE, reason |-> "", states |-> loss.states]

\* RiskManager.update_position
update_position(cs, client_id, side, size) ==
    LET cs0 == get_or_create_state(cs, client_id)
        position_delta == IF side = "buy" THEN size ELSE 0 - size
    IN [cs0 EXCEPT ![client_id].position = @ + position_delta]

\* RiskManager.update_pnl with unrealized_pnl left at its default 0.0
update_pnl(cs, client_id, realized_pnl) ==
    LET cs0 == get_or_create_state(cs, client_id)
    IN [cs0 EXCEPT ![client_id].realized_pnl = @ + realized_pnl,
                   ![client_id].unrealized_pnl = 0,
                   ![client_id].daily_pnl =
                       cs0[client_id].realized_pnl + realized_pnl]

\* RiskManager.reset_daily
reset_daily(cs) ==
    [c \in DOMAIN cs |-> [cs[c] EXCEPT !.daily_pnl = 0, !.order_count = 0,
                                       !.is_blocked = FALSE]]

\* "Process fills" of submit_order: update_position for each returned fill
RECURSIVE process_fills(_, _)
process_fills(cs, fs) ==
    IF fs = <<>> THEN cs
    ELSE process_fills(update_position(cs, Head(fs).client_id, Head(fs).side,
                                       Head(fs).size), Tail(fs))

\* ------------------------------------------------------------------ state
VARIABLES
    bids,               \* LimitOrderBook.bids: price -> queue of <<order_id, size>>
    asks,               \* LimitOrderBook.asks
    orders,             \* LimitOrderBook.orders: order_id -> Order
    fills,              \* LimitOrderBook.fills
    last_trade_price,   \* LimitOrderBook.last_trade_price
    last_trade_size,    \* LimitOrderBook.last_trade_size
    client_states,      \* RiskManager.client_states
    now,                \* time.time()
    returned,           \* the list of fills the latest add_order returned
    passed,             \* log: client and time of every POST /order that
                        \* got through check_order_rate
    md_subscribers,     \* TradingInterface.md_subscribers: list of sockets
    fill_subscribers,   \* TradingInterface.fill_subscribers: client -> list
    link,               \* socket -> what a send_json on it does now
    received,           \* socket -> the messages its peer has got
    handlers,           \* the submit_order coroutines and where they stand
    sockets,            \* the websocket coroutines and where they stand
    gen,                \* the _market_data_generator task, where it stands
    running,            \* the coroutine that holds the event loop, or NoTask
    book_reply          \* the body of the latest GET /book response

book_vars == <<bids, asks, orders, fills, last_trade_price, last_trade_size>>
net_vars == <<md_subscribers, fill_subscribers, link, received, handlers,
              sockets, gen, running, book_reply>>
vars == <<bids, asks, orders, fills, last_trade_price, last_trade_size,
          client_states, now, returned, passed, md_subscribers,
          fill_subscribers, link, received, handlers, sockets, gen, running,
          book_reply>>

\* self.lob
lob == [bids |-> bids, asks |-> asks, orders |-> orders, fills |-> fills,
        last_trade_price |-> last_trade_price,
        last_trade_size |-> last_trade_size]

SetLob(L) ==
    /\ bids' = L.bids
    /\ asks' = L.asks
    /\ orders' = L.orders
    /\ fills' = L.fills
    /\ last_trade_price' = L.last_trade_price
    /\ last_trade_size' = L.last_trade_size

\* the sockets that may connect to /ws/fills/{client_id} and to /ws/md, and
\* the POST /order requests that may be in progress together
FillSockets == {"f1", "f2"}
MdSockets == {"m1", "m2"}
ConnectOrder == {<<"f1", "f2">>, <<"m1", "m2">>}   \* who connects first
MaxHandlers == 2
Handlers == 1 .. MaxHandlers
NoTask == 0
NoSocket == ""
NoOrder == Order(0, "", "", "", None, 0)

\* a submit_order coroutine that has not been called
IdleHandler ==
    [pc |-> "idle", order |-> NoOrder, mid |-> None, base |-> 0, n |-> 0,
     j |-> 0, it |-> 0, ws |-> NoSocket, disconnected |-> <<>>,
     targets |-> <<>>]
\* a websocket coroutine that has not been called
NewSocket == [pc |-> "new", client_id |-> "", pending |-> <<>>]
\* the generator between two rounds
SleepingGenerator ==
    [pc |-> "sleep", snapshot |-> <<>>, it |-> 0, ws |-> NoSocket,
     disconnected |-> <<>>, rounds |-> 0]

\* TradingInterface.__init__: no subscriber, nothing in progress
InitNet ==
    /\ md_subscribers = <<>>
    /\ fill_subscribers = <<>>
    /\ link = [w \in FillSockets \cup MdSockets |-> "open"]
    /\ received = [w \in FillSockets \cup MdSockets |-> <<>>]
    /\ handlers = [h \in Handlers |-> IdleHandler]
    /\ sockets = [w \in FillSockets \cup MdSockets |-> NewSocket]
    /\ gen = SleepingGenerator
    /\ running = NoTask
    /\ book_reply = <<>>

\* LimitOrderBook.__init__, RiskManager.__init__
Init ==
    /\ bids = <<>>
    /\ asks = <<>>
    /\ orders = <<>>
    /\ fills = <<>>
    /\ last_trade_price = None
    /\ last_trade_size = 0
    /\ client_states = <<>>
    /\ now = TimeResolution
    /\ returned = <<>>
    /\ passed = <<>>
    /\ InitNet

\* uuid.uuid4(): an id no order has
NewOrderId == Cardinality(DOMAIN orders) + 1

\* mutant of gated_add_order: the order is matched whatever the gate said
gated_add_order_ungated(valid, L, order) == add_order(L, order)

\* the book a submission leaves behind: the order is matched only when the
\* risk gate let it through
gated_add_order(valid, L, order) ==
    IF valid THEN add_order(L, order)
    ELSE [raised |-> FALSE, lob |-> L, fills |-> <<>>]

\* the end of submit_order: v is the verdict of the risk gate, r what
\* add_order did; the returned fills go through update_position
process_response(v, r) ==
    /\ SetLob(r.lob)
    /\ client_states' = IF r.raised THEN v.states
                        ELSE process_fills(v.states, r.fills)
    /\ returned' = IF v.valid THEN r.fills ELSE returned
    /\ UNCHANGED now
    /\ UNCHANGED net_vars

\* the verdict v came from a validate_order that got past check_order_rate
rate_passed(v) == v.reason \notin {"blocked", "rate"}

log_rate(v, client_id) ==
    passed' = IF rate_passed(v)
              THEN Append(passed, [client_id |-> client_id, time |-> now])
              ELSE passed

\* submit_order after the risk check
submit_validated(v, order) ==
    /\ v.valid => Cardinality(DOMAIN orders) < MaxOrders
    /\ log_rate(v, order.client_id)
    /\ process_response(v, gated_add_order(v.valid, lob, order))

\* POST /order
SubmitOrder(client_id, side, type, price, size) ==
    submit_validated(
        validate_order(client_states, now, client_id, side, size,
                       IF type = "limit" THEN price ELSE None,
                       mid_price2(lob)),
        Order(NewOrderId, client_id, side, type, price, size))

\* POST /cancel/{order_id}
CancelOrder(order_id) ==
    LET r == cancel_order(lob, order_id)
    IN /\ r.ok => Cardinality({o \in DOMAIN orders :
                                   orders[o].status = "canceled"}) < MaxCancels
       /\ SetLob(r.lob)
       /\ UNCHANGED <<client_states, now, returned, passed>>
       /\ UNCHANGED net_vars

\* _market_data_generator: the synthetic limit order of one round
synthetic_added(r) ==
    /\ SetLob(r.lob)
    /\ returned' = r.fills
    /\ UNCHANGED <<client_states, now, passed>>
    /\ UNCHANGED net_vars

SyntheticOrder(side, price, size) ==
    /\ Cardinality(DOMAIN orders) < MaxOrders
    /\ synthetic_added(add_order(lob, Order(NewOrderId, SYNTHETIC, side,
                                            "limit", price, size)))

\* the wall clock advances
Tick ==
    /\ now < TimeResolution + MaxTime
    /\ now' = now + 1
    /\ UNCHANGED <<bids, asks, orders, fills, last_trade_price,
                   last_trade_size, client_states, returned, passed>>
    /\ UNCHANGED net_vars

MarketPrices == {None}
SyntheticPrices == {p \in BasePrice .. BasePrice + PriceSpan : p % PriceScale = 0}

Next ==
    \/ \E c \in Clients, s \in Sides, p \in RequestPrices, z \in RequestSizes :
          SubmitOrder(c, s, "limit", p, z)
    \/ \E c \in Clients, s \in Sides, p \in MarketPrices, z \in RequestSizes :
          SubmitOrder(c, s, "market", p, z)
    \/ \E id \in DOMAIN orders \cup {UnknownId} : CancelOrder(id)
    \/ \E s \in Sides, p \in SyntheticPrices, z \in 1 .. MaxSize :
          SyntheticOrder(s, p, z)

\* the clock stands still: what the book can become does not depend on it
Spec == Init /\ [][Next]_vars

\* the same with the clock running
SpecClock == Init /\ [][Next \/ Tick]_vars

\* ------------------------------------------------ unit orders, one more
\* The same handlers fed with orders of size 1 only, market orders from the
\* clients and limit orders from the generator, MaxUnitOrders of them, with
\* the clock running: long enough for a client to buy and sell again.
MaxUnitOrders == 4

unit_submit_validated(v, order) ==
    /\ v.valid => Cardinality(DOMAIN orders) < MaxUnitOrders
    /\ log_rate(v, order.client_id)
    /\ process_response(v, gated_add_order(v.valid, lob, order))

\* POST /order with a market order of size 1
SubmitUnitOrder(client_id, side) ==
    unit_submit_validated(
        validate_order(client_states, now, client_id, side, 1, None,
                       mid_price2(lob)),
        Order(NewOrderId, client_id, side, "market", None, 1))

\* _market_data_generator with a limit order of size 1
SyntheticUnitOrder(side, price) ==
    /\ Cardinality(DOMAIN orders) < MaxUnitOrders
    /\ synthetic_added(add_order(lob, Order(NewOrderId, SYNTHETIC, side,
                                            "limit", price, 1)))

NextUnit ==
    \/ \E c \in Clients, s \in Sides : SubmitUnitOrder(c, s)
    \/ \E s \in Sides, p \in SyntheticPrices : SyntheticUnitOrder(s, p)
    \/ Tick

SpecUnit == Init /\ [][NextUnit]_vars

\* ------------------------------------------------ the risk gate by itself
\* RiskManager driven through its public methods: any state update_position,
\* update_pnl and the checks can have left a client in, and validate_order
\* called with any request and any mid price.
PnlValues == {0 - max_daily_loss - 1, 0}
RiskStates ==
    {[position |-> q, realized_pnl |-> pnl, unrealized_pnl |-> 0,
      daily_pnl |-> pnl, order_count |-> n, last_order_time |-> t,
      is_blocked |-> b] :
        q \in (0 - max_position) .. max_position, pnl \in PnlValues,
        n \in 0 .. max_order_rate, t \in {0, TimeResolution},
        b \in BOOLEAN}
MidPrices2 == {None, 2 * BasePrice, 2 * (BasePrice + PriceSpan)}

InitValidate ==
    /\ bids = <<>>
    /\ asks = <<>>
    /\ orders = <<>>
    /\ fills = <<>>
    /\ last_trade_price = None
    /\ last_trade_size = 0
    /\ client_states \in {<<>>} \cup {[c \in Clients |-> st] : st \in RiskStates}
    /\ now = TimeResolution
    /\ returned = <<>>
    /\ passed = <<>>
    /\ InitNet

\* RiskManager.validate_order called by itself
ValidateOrder(client_id, side, size, price, mid2) ==
    /\ client_states' = validate_order(client_states, now, client_id, side,
                                       size, price, mid2).states
    /\ UNCHANGED <<bids, asks, orders, fills, last_trade_price,
                   last_trade_size, now, returned, passed>>
    /\ UNCHANGED net_vars

\* RiskManager.update_position called by itself
UpdatePosition(client_id, side, size) ==
    /\ client_states' = update_position(client_states, client_id, side, size)
    /\ Abs(client_states'[client_id].position) <= max_position
    /\ UNCHANGED <<bids, asks, orders, fills, last_trade_price,
                   last_trade_size, now, returned, passed>>
    /\ UNCHANGED net_vars

\* RiskManager.update_pnl called by itself
UpdatePnl(client_id, realized_pnl) ==
    /\ client_states' = update_pnl(client_states, client_id, realized_pnl)
    /\ client_states'[client_id].realized_pnl \in PnlValues
    /\ UNCHANGED <<bids, asks, orders, fills, last_trade_price,
                   last_trade_size, now, returned, passed>>
    /\ UNCHANGED net_vars

\* RiskManager.reset_daily called by itself
ResetDaily ==
    /\ client_states' = reset_daily(client_states)
    /\ UNCHANGED <<bids, asks, orders, fills, last_trade_price,
                   last_trade_size, now, returned, passed>>
    /\ UNCHANGED net_vars

NextValidate ==
    \/ \E c \in Clients, s \in Sides, z \in RequestSizes,
          p \in RequestPrices, m \in MidPrices2 : ValidateOrder(c, s, z, p, m)
    \/ \E c \in Clients, s \in Sides, z \in 1 .. MaxSize :
          UpdatePosition(c, s, z)
    \/ \E c \in Clients, d \in {0 - max_daily_loss - 1, max_daily_loss + 1} :
          UpdatePnl(c, d)
    \/ ResetDaily
    \/ Tick

SpecValidate == InitValidate /\ [][NextValidate]_vars

\* ------------------------------------------------------ the event loop
\* The handlers are coroutines of one asyncio loop: a coroutine keeps the
\* loop until it awaits something that is not ready, and only then another
\* one runs.  Every await ws.send_json() is such a point: the send is begun
\* in one step and completes, or raises, in a later one.  What the send does
\* is the state of the link: "open" (it completes), "broken" (it raises),
\* "stuck" (it does not return).  A fill message is named by the place of
\* its Fill in self.fills.
ReplayWindow == 10              \* get_client_fills(client_id)[-10:]
FillPrices == {BasePrice}       \* prices of the orders of the fills runs
FillSizes == 1 .. MaxSize

\* list.remove(x) for each x of xs, one after the other; ValueError when an
\* x is not in the list
seq_without(list, x) ==
    LET i == CHOOSE k \in 1 .. Len(list) : list[k] = x /\
                 \A m \in 1 .. k - 1 : list[m] # x
    IN SubSeq(list, 1, i - 1) \o SubSeq(list, i + 1, Len(list))
in_list(list, x) == \E k \in 1 .. Len(list) : list[k] = x

\* for ws in disconnected: if ws in self.md_subscribers: remove(ws); also
\* what a lone list.remove(ws) leaves, whether or not it raises
RECURSIVE remove_all_guarded(_, _)
remove_all_guarded(list, xs) ==
    IF xs = <<>> THEN [raised |-> FALSE, list |-> list]
    ELSE IF ~in_list(list, Head(xs)) THEN remove_all_guarded(list, Tail(xs))
    ELSE remove_all_guarded(seq_without(list, Head(xs)), Tail(xs))

\* for ws in disconnected: self.fill_subscribers[client_id].remove(ws)
RECURSIVE remove_all(_, _)
remove_all(list, xs) ==
    IF xs = <<>> THEN [raised |-> FALSE, list |-> list]
    ELSE IF ~in_list(list, Head(xs)) THEN [raised |-> TRUE, list |-> list]
    ELSE remove_all(seq_without(list, Head(xs)), Tail(xs))

\* the place in self.fills of the fill a handler is pushing: add_order
\* returned the taker's fill of each match, and each match wrote the
\* taker's fill and then the maker's
fill_index(h) == h.base + 2 * h.j - 1

\* submit_order from "for fill in fills" on, and _push_fill from "for ws in
\* self.fill_subscribers[fill.client_id]" on, run up to the next send that
\* is begun, the return or the exception.  T holds the handler, the
\* subscriber dict and the risk states; H is self.fills.
RECURSIVE next_fill(_, _)
RECURSIVE next_send(_, _)
next_fill(T, H) ==
    IF T.h.j = T.h.n THEN [T EXCEPT !.h.pc = "returned"]
    ELSE LET f == H[T.h.base + 2 * T.h.j + 1]
             cs1 == update_position(T.cs, f.client_id, f.side, f.size)
         IN IF f.client_id \in DOMAIN T.fs
            THEN next_send([h |-> [T.h EXCEPT !.j = @ + 1, !.it = 0,
                                              !.disconnected = <<>>,
                                              !.targets = T.fs[f.client_id]],
                            fs |-> T.fs, cs |-> cs1], H)
            ELSE next_fill([h |-> [T.h EXCEPT !.j = @ + 1],
                            fs |-> T.fs, cs |-> cs1], H)
next_send(T, H) ==
    LET c == H[fill_index(T.h)].client_id
    IN IF T.h.it < Len(T.fs[c])
       THEN [T EXCEPT !.h.pc = "sending", !.h.ws = T.fs[c][T.h.it + 1],
                      !.h.it = @ + 1]
       ELSE IF remove_all(T.fs[c], T.h.disconnected).raised
       THEN [T EXCEPT !.h.pc = "raised",
                      !.fs[c] = remove_all(T.fs[c], T.h.disconnected).list]
       ELSE next_fill([T EXCEPT
                          !.fs[c] = remove_all(T.fs[c],
                                               T.h.disconnected).list], H)

\* the handler slot a new request takes
FreeSlot(h) ==
    /\ handlers[h].pc \notin {"validated", "sending"}
    /\ \A g \in Handlers :
          g < h => handlers[g].pc \in {"validated", "sending"}

\* mutant of loop_after_validate: the handler gives the loop away between
\* the risk check and add_order
loop_after_validate_released(h) == NoTask

\* who holds the event loop when validate_order has said yes: there is no
\* await between it and add_order
loop_after_validate(h) == h

\* submit_order up to the risk verdict v
submit_checked(h, v, order, mid2) ==
    /\ client_states' = v.states
    /\ log_rate(v, order.client_id)
    /\ handlers' = [handlers EXCEPT ![h] =
           IF v.valid
           THEN [IdleHandler EXCEPT !.pc = "validated", !.order = order,
                                    !.mid = mid2]
           ELSE [IdleHandler EXCEPT !.pc = "refused"]]
    /\ running' = IF v.valid THEN loop_after_validate(h) ELSE NoTask
    /\ UNCHANGED <<bids, asks, orders, fills, last_trade_price,
                   last_trade_size, now, returned, md_subscribers,
                   fill_subscribers, link, received, sockets, gen,
                   book_reply>>

\* POST /order: the handler starts, reads the mid price and asks the risk
\* manager
SubmitValidate(h, client_id, side, type, price, size) ==
    /\ running = NoTask
    /\ FreeSlot(h)
    /\ Cardinality(DOMAIN orders) < MaxOrders
    /\ submit_checked(h,
           validate_order(client_states, now, client_id, side, size,
                          IF type = "limit" THEN price ELSE None,
                          mid_price2(lob)),
           Order(0, client_id, side, type, price, size), mid_price2(lob))

\* the state a handler leaves when it stops at T
handler_stops(h, T) ==
    /\ handlers' = [handlers EXCEPT ![h] = T.h]
    /\ fill_subscribers' = T.fs
    /\ client_states' = T.cs
    /\ running' = NoTask

\* submit_order from add_order on, r being what add_order did
submit_matched(h, r) ==
    /\ SetLob(r.lob)
    /\ returned' = r.fills
    /\ handler_stops(h,
           next_fill([h |-> [handlers[h] EXCEPT !.base = Len(fills),
                                                !.n = Len(r.fills),
                                                !.order.order_id = NewOrderId],
                      fs |-> fill_subscribers, cs |-> client_states],
                     r.lob.fills))
    /\ UNCHANGED <<now, passed, md_subscribers, link, received, sockets, gen,
                   book_reply>>

\* POST /order: the order is created and matched, and its fills are gone
\* through up to the first send
SubmitMatch(h) ==
    /\ handlers[h].pc = "validated"
    /\ running \in {h, NoTask}
    /\ submit_matched(h, add_order(lob, [handlers[h].order EXCEPT
                                           !.order_id = NewOrderId]))

\* the handler with the outcome of the send it was waiting for
after_send(h) ==
    IF link[h.ws] = "open" THEN h
    ELSE [h EXCEPT !.disconnected = Append(@, h.ws)]

\* _push_fill: the send a handler waits for completes or raises, and the
\* handler runs on
PushSendDone(h) ==
    /\ running = NoTask
    /\ handlers[h].pc = "sending"
    /\ link[handlers[h].ws] # "stuck"
    /\ received' = IF link[handlers[h].ws] = "open"
                   THEN [received EXCEPT ![handlers[h].ws] =
                            Append(@, fill_index(handlers[h]))]
                   ELSE received
    /\ handler_stops(h, next_send([h |-> after_send(handlers[h]),
                                   fs |-> fill_subscribers,
                                   cs |-> client_states], fills))
    /\ UNCHANGED <<bids, asks, orders, fills, last_trade_price,
                   last_trade_size, now, returned, passed, md_subscribers,
                   link, sockets, gen, book_reply>>

\* the places in self.fills of the fills of a client: get_client_fills
RECURSIVE client_fill_indexes(_, _, _)
client_fill_indexes(H, client_id, k) ==
    IF k > Len(H) THEN <<>>
    ELSE (IF H[k].client_id = client_id THEN <<k>> ELSE <<>>)
         \o client_fill_indexes(H, client_id, k + 1)

\* list[-n:]
last_of(list, n) ==
    IF Len(list) <= n THEN list
    ELSE SubSeq(list, Len(list) - n + 1, Len(list))

\* fills_websocket after accept(): the socket is put on the list and the
\* first of the recent fills is sent
socket_replays(ws, client_id, recent) ==
    /\ fill_subscribers' =
           DictSet(fill_subscribers, client_id,
                   Append(IF client_id \in DOMAIN fill_subscribers
                          THEN fill_subscribers[client_id] ELSE <<>>, ws))
    /\ sockets' = [sockets EXCEPT ![ws] =
           [pc |-> IF recent = <<>> THEN "alive" ELSE "replay",
            client_id |-> client_id, pending |-> recent]]
    /\ UNCHANGED <<bids, asks, orders, fills, last_trade_price,
                   last_trade_size, client_states, now, returned, passed,
                   md_subscribers, link, received, handlers, gen, running,
                   book_reply>>

FillsConnect(ws, client_id) ==
    /\ running = NoTask
    /\ sockets[ws].pc = "new"
    /\ \A w \in FillSockets : <<w, ws>> \in ConnectOrder => sockets[w].pc # "new"
    /\ socket_replays(ws, client_id,
           last_of(client_fill_indexes(fills, client_id, 1), ReplayWindow))

\* fills_websocket: a send of the replay completes; or it raises, with
\* WebSocketDisconnect (the handler takes the socket off the list, and
\* list.remove raises when it is not there) or with something else
ReplaySendDone(ws, disconnect) ==
    /\ running = NoTask
    /\ sockets[ws].pc = "replay"
    /\ link[ws] # "stuck"
    /\ IF link[ws] = "open"
       THEN /\ received' = [received EXCEPT ![ws] =
                               Append(@, Head(sockets[ws].pending))]
            /\ sockets' = [sockets EXCEPT
                   ![ws].pending = Tail(@),
                   ![ws].pc = IF Tail(sockets[ws].pending) = <<>>
                              THEN "alive" ELSE "replay"]
            /\ UNCHANGED fill_subscribers
       ELSE /\ UNCHANGED received
            /\ sockets' = [sockets EXCEPT ![ws].pc = "closed",
                                          ![ws].pending = <<>>]
            /\ fill_subscribers' =
                   IF disconnect /\ sockets[ws].client_id
                                       \in DOMAIN fill_subscribers
                   THEN [fill_subscribers EXCEPT ![sockets[ws].client_id] =
                            remove_all_guarded(@, <<ws>>).list]
                   ELSE fill_subscribers
    /\ UNCHANGED <<bids, asks, orders, fills, last_trade_price,
                   last_trade_size, client_states, now, returned, passed,
                   md_subscribers, link, handlers, gen, running, book_reply>>

\* the peer of a connected socket goes away: sends to it raise from now on
\* (seen between two steps of the coroutines: a link shows only at a send)
Break(ws) ==
    /\ running = NoTask
    /\ sockets[ws].pc \notin {"new", "closed"}
    /\ link[ws] = "open"
    /\ link' = [link EXCEPT ![ws] = "broken"]
    /\ UNCHANGED <<bids, asks, orders, fills, last_trade_price,
                   last_trade_size, client_states, now, returned, passed,
                   md_subscribers, fill_subscribers, received, handlers,
                   sockets, gen, running, book_reply>>

\* the peer of a connected socket stops reading: sends to it do not return
Stall(ws) ==
    /\ running = NoTask
    /\ sockets[ws].pc \notin {"new", "closed"}
    /\ link[ws] = "open"
    /\ link' = [link EXCEPT ![ws] = "stuck"]
    /\ UNCHANGED <<bids, asks, orders, fills, last_trade_price,
                   last_trade_size, client_states, now, returned, passed,
                   md_subscribers, fill_subscribers, received, handlers,
                   sockets, gen, running, book_reply>>

\* the generator adds a resting order between two steps of the handlers
FillsSynthetic(side, price, size) ==
    /\ running = NoTask
    /\ SyntheticOrder(side, price, size)

\* POST /cancel/{order_id}: the handler has no await
FillsCancel(order_id) ==
    /\ running = NoTask
    /\ CancelOrder(order_id)

\* POST /order and POST /cancel handlers, /ws/fills sockets and the
\* generator's orders, the clock standing still
NextFills ==
    \/ \E h \in Handlers, c \in Clients, s \in Sides, p \in FillPrices,
          z \in FillSizes : SubmitValidate(h, c, s, "limit", p, z)
    \/ \E h \in Handlers, c \in Clients, s \in Sides, p \in MarketPrices,
          z \in FillSizes : SubmitValidate(h, c, s, "market", p, z)
    \/ \E h \in Handlers : SubmitMatch(h)
    \/ \E h \in Handlers : PushSendDone(h)
    \/ \E ws \in FillSockets, c \in Clients : FillsConnect(ws, c)
    \/ \E ws \in FillSockets, d \in BOOLEAN : ReplaySendDone(ws, d)
    \/ \E ws \in FillSockets : Break(ws)
    \/ \E s \in Sides, p \in FillPrices, z \in FillSizes :
          FillsSynthetic(s, p, z)
    \/ \E id \in DOMAIN orders : FillsCancel(id)

SpecFills == Init /\ [][NextFills]_vars

\* ------------------------------------------------ market data broadcast
MaxRounds == 2        \* rounds of the generator loop
MaxMdOrders == 2      \* orders of the market data runs

\* _market_data_generator from "for ws in self.md_subscribers" on, up to the
\* next send that is begun or to the sleep; G holds the task and the list
next_md_send(G) ==
    IF G.g.it < Len(G.subs)
    THEN [G EXCEPT !.g.pc = "sending", !.g.ws = G.subs[G.g.it + 1],
                   !.g.it = @ + 1]
    ELSE [g |-> [G.g EXCEPT !.pc = "sleep", !.ws = NoSocket],
          subs |-> remove_all_guarded(G.subs, G.g.disconnected).list]

generator_stops(G) ==
    /\ gen' = G.g
    /\ md_subscribers' = G.subs

\* one round of the generator loop after its random draws, r being what
\* add_order did when an order was drawn
generator_round(r) ==
    /\ SetLob(r.lob)
    /\ returned' = r.fills
    /\ generator_stops(next_md_send(
           [g |-> [gen EXCEPT !.snapshot = get_book_snapshot(r.lob, now),
                              !.it = 0, !.disconnected = <<>>,
                              !.rounds = @ + 1],
            subs |-> md_subscribers]))
    /\ UNCHANGED <<client_states, now, passed, fill_subscribers, link,
                   received, handlers, sockets, running, book_reply>>

\* the generator wakes up, adds a synthetic order and begins the broadcast
GeneratorRoundOrder(side, price, size) ==
    /\ running = NoTask
    /\ gen.pc = "sleep"
    /\ gen.rounds < MaxRounds
    /\ Cardinality(DOMAIN orders) < MaxMdOrders
    /\ generator_round(add_order(lob, Order(NewOrderId, SYNTHETIC, side,
                                            "limit", price, size)))

\* the generator wakes up and begins the broadcast of the book as it is
GeneratorRoundQuiet ==
    /\ running = NoTask
    /\ gen.pc = "sleep"
    /\ gen.rounds < MaxRounds
    /\ generator_round([raised |-> FALSE, lob |-> lob, fills |-> returned])

\* the generator with the outcome of the send it was waiting for
after_md_send(g) ==
    IF link[g.ws] = "open" THEN g
    ELSE [g EXCEPT !.disconnected = Append(@, g.ws)]

\* the send the generator waits for completes or raises, and it runs on
GenSendDone ==
    /\ running = NoTask
    /\ gen.pc = "sending"
    /\ link[gen.ws] # "stuck"
    /\ received' = IF link[gen.ws] = "open"
                   THEN [received EXCEPT ![gen.ws] = Append(@, gen.snapshot)]
                   ELSE received
    /\ generator_stops(next_md_send([g |-> after_md_send(gen),
                                     subs |-> md_subscribers]))
    /\ UNCHANGED <<bids, asks, orders, fills, last_trade_price,
                   last_trade_size, client_states, now, returned, passed,
                   fill_subscribers, link, handlers, sockets, running,
                   book_reply>>

\* market_data_websocket after accept(): the socket is put on the list and
\* the snapshot of the book is sent to it
MdConnect(ws) ==
    /\ running = NoTask
    /\ sockets[ws].pc = "new"
    /\ \A w \in MdSockets : <<w, ws>> \in ConnectOrder => sockets[w].pc # "new"
    /\ md_subscribers' = Append(md_subscribers, ws)
    /\ sockets' = [sockets EXCEPT ![ws] =
           [pc |-> "initial", client_id |-> "",
            pending |-> <<get_book_snapshot(lob, now)>>]]
    /\ UNCHANGED <<bids, asks, orders, fills, last_trade_price,
                   last_trade_size, client_states, now, returned, passed,
                   fill_subscribers, link, received, handlers, gen, running,
                   book_reply>>

\* market_data_websocket: the send of the first snapshot completes; or it
\* raises, with WebSocketDisconnect (the handler takes the socket off the
\* list) or with something else
MdInitialDone(ws, disconnect) ==
    /\ running = NoTask
    /\ sockets[ws].pc = "initial"
    /\ link[ws] # "stuck"
    /\ IF link[ws] = "open"
       THEN /\ received' = [received EXCEPT ![ws] =
                               Append(@, Head(sockets[ws].pending))]
            /\ sockets' = [sockets EXCEPT ![ws].pending = <<>>,
                                          ![ws].pc = "alive"]
            /\ UNCHANGED md_subscribers
       ELSE /\ UNCHANGED received
            /\ sockets' = [sockets EXCEPT ![ws].pc = "closed",
                                          ![ws].pending = <<>>]
            /\ md_subscribers' =
                   IF disconnect
                   THEN remove_all_guarded(md_subscribers, <<ws>>).list
                   ELSE md_subscribers
    /\ UNCHANGED <<bids, asks, orders, fills, last_trade_price,
                   last_trade_size, client_states, now, returned, passed,
                   fill_subscribers, link, handlers, gen, running, book_reply>>

\* GET /book, once
GetBook ==
    /\ running = NoTask
    /\ book_reply = <<>>
    /\ book_reply' = get_book_snapshot(lob, now)
    /\ UNCHANGED <<bids, asks, orders, fills, last_trade_price,
                   last_trade_size, client_states, now, returned, passed,
                   md_subscribers, fill_subscribers, link, received,
                   handlers, sockets, gen, running>>

\* the generator, /ws/md sockets, GET /book and POST /order handlers, the
\* clock standing still
\* POST /order with a market order of size 1, while the market data runs
MdSubmitValidate(h, client_id, side) ==
    /\ Cardinality(DOMAIN orders) < MaxMdOrders
    /\ SubmitValidate(h, client_id, side, "market", None, 1)

NextMd ==
    \/ \E s \in Sides, p \in SyntheticPrices : GeneratorRoundOrder(s, p, 1)
    \/ GeneratorRoundQuiet
    \/ GenSendDone
    \/ \E ws \in MdSockets : MdConnect(ws)
    \/ \E ws \in MdSockets, d \in BOOLEAN : MdInitialDone(ws, d)
    \/ \E ws \in MdSockets : Break(ws)
    \/ \E ws \in MdSockets : Stall(ws)
    \/ GetBook
    \/ \E h \in Handlers, c \in Clients, s \in Sides :
          MdSubmitValidate(h, c, s)
    \/ \E h \in Handlers : SubmitMatch(h)

SpecMd == Init /\ [][NextMd]_vars

\* The broadcast by itself, the book left alone.  The event loop runs every
\* coroutine that can go on: a send that can complete or raise does, and
\* the generator wakes up from its sleep.
NextStall ==
    \/ GeneratorRoundQuiet
    \/ GenSendDone
    \/ \E ws \in MdSockets : MdConnect(ws)
    \/ \E ws \in MdSockets, d \in BOOLEAN : MdInitialDone(ws, d)
    \/ \E ws \in MdSockets : Break(ws)
    \/ \E ws \in MdSockets : Stall(ws)

SpecStall ==
    /\ Init
    /\ [][NextStall]_vars
    /\ WF_vars(GenSendDone)
    /\ WF_vars(GeneratorRoundQuiet)
    /\ \A ws \in MdSockets : WF_vars(\E d \in BOOLEAN : MdInitialDone(ws, d))

\* ------------------------------------------------ positions under way
\* The POST /order handlers with market orders of every size the risk gate
\* lets through, against resting orders of the generator, with subscribers
\* to the fills of the clients, so that the handlers stop at their sends;
\* MaxPositionOrders orders, every link open, the clock standing still.
MaxPositionOrders == 4

\* POST /order with a market order: the handler starts, reads the mid price
\* and asks the risk manager
PositionSubmitValidate(h, client_id, side, size) ==
    /\ running = NoTask
    /\ FreeSlot(h)
    /\ Cardinality(DOMAIN orders) < MaxPositionOrders
    /\ submit_checked(h,
           validate_order(client_states, now, client_id, side, size, None,
                          mid_price2(lob)),
           Order(0, client_id, side, "market", None, size), mid_price2(lob))

\* the generator adds a resting order between two steps of the handlers
PositionSynthetic(side, size) ==
    /\ running = NoTask
    /\ Cardinality(DOMAIN orders) < MaxPositionOrders
    /\ synthetic_added(add_order(lob, Order(NewOrderId, SYNTHETIC, side,
                                            "limit", BasePrice, size)))

NextPosition ==
    \/ \E h \in Handlers, c \in Clients, s \in Sides,
          z \in 1 .. max_order_size : PositionSubmitValidate(h, c, s, z)
    \/ \E h \in Handlers : SubmitMatch(h)
    \/ \E h \in Handlers : PushSendDone(h)
    \/ \E ws \in FillSockets, c \in Clients : FillsConnect(ws, c)
    \/ \E ws \in FillSockets, d \in BOOLEAN : ReplaySendDone(ws, d)
    \/ \E s \in Sides, z \in FillSizes : PositionSynthetic(s, z)

SpecPosition == Init /\ [][NextPosition]_vars

\* ------------------------------------------------- what the claims speak of
\* every queue entry of a side of the book, with the place it has
EntriesOn(book, side) ==
    UNION {{[side |-> side, price |-> p, pos |-> i,
             order_id |-> book[p][i][1], size |-> book[p][i][2]] :
            i \in 1 .. Len(book[p])} : p \in DOMAIN book}
QueueEntries == EntriesOn(bids, "buy") \cup EntriesOn(asks, "sell")
EntriesOf(oid) == {e \in QueueEntries : e.order_id = oid}

\* the entry e2 is matched before the entry e: a better price, or the same
\* price and nearer to the head
HasPriority(e2, e) ==
    /\ e2.side = e.side
    /\ \/ IF e.side = "buy" THEN e2.price > e.price ELSE e2.price < e.price
       \/ e2.price = e.price /\ e2.pos < e.pos

\* the sum of the sizes of the fills of seq that carry the order id
RECURSIVE FilledSize(_, _)
FilledSize(seq, oid) ==
    IF seq = <<>> THEN 0
    ELSE (IF Head(seq).order_id = oid THEN Head(seq).size ELSE 0)
         + FilledSize(Tail(seq), oid)

\* the fill history is written in pairs; the second of a pair is the maker's
MakerFillAt(k) == k \in 1 .. Len(fills) /\ k % 2 = 0
WasMaker(oid) == \E k \in 1 .. Len(fills) : MakerFillAt(k) /\ fills[k].order_id = oid
LastOrderId == Cardinality(DOMAIN orders)
OrdersOf(client_id) == {o \in DOMAIN orders : orders[o].client_id = client_id}

\* C1: a buy limit order is filled only at prices at or below its limit
\* price and a sell limit order only at prices at or above it, so matching
\* stops at the first opposite level its price does not cross.
C1_FillsWithinLimit ==
    \A i \in 1 .. Len(fills) :
        LET o == orders[fills[i].order_id]
        IN o.type = "limit" =>
              IF o.side = "buy" THEN fills[i].price <= o.price
              ELSE fills[i].price >= o.price

\* C2: a POST /order that the risk gate refuses leaves the bid and ask
\* queues, the order index, the fill history and the last-trade cache as
\* they were: a step that changes any of them is no refused submission.
Refused(c, s, t, p, z) ==
    ~validate_order(client_states, now, c, s, z,
                    IF t = "limit" THEN p ELSE None, mid_price2(lob)).valid
C2_RefusedLeavesBook ==
    [][\/ UNCHANGED book_vars
       \/ \A c \in Clients, s \in Sides, z \in RequestSizes :
             /\ \A p \in RequestPrices :
                   ~(Refused(c, s, "limit", p, z)
                     /\ SubmitOrder(c, s, "limit", p, z))
             /\ \A p \in MarketPrices :
                   ~(Refused(c, s, "market", p, z)
                     /\ SubmitOrder(c, s, "market", p, z))]_vars
\* a request of A passed the rate check and left no order (the clock of Spec
\* stands still, so order_count counts them all), on a book that has traded
C2_Witness ==
    /\ "A" \in DOMAIN client_states
    /\ client_states["A"].order_count > Cardinality(OrdersOf("A"))
    /\ DOMAIN bids \cup DOMAIN asks # {}
    /\ fills # <<>>

\* C3: price-time priority.  In a step, the k-th maker filled was resting on
\* the side opposite to the taker at the price of the fill, and every entry
\* with priority over it had been used up by the earlier fills of the step;
\* so a resting order is filled only if all entries with priority over it
\* end the step completely filled.
UsedBefore(oid, k) ==
    FilledSize(SubSeq(fills', Len(fills) + 1, Len(fills) + k - 1), oid)
C3_PriceTimePriority ==
    [][/\ \A k \in 1 .. (Len(fills') - Len(fills)) :
            k % 2 = 0 =>
              LET f == fills'[Len(fills) + k]
                  t == fills'[Len(fills) + k - 1]
              IN /\ \E e \in EntriesOf(f.order_id) :
                        e.price = f.price /\ e.side # t.side
                 /\ \A e \in EntriesOf(f.order_id) :
                      \A e2 \in QueueEntries :
                        HasPriority(e2, e) =>
                          UsedBefore(e2.order_id, k)
                              = orders[e2.order_id].remaining_size
       /\ \A e \in QueueEntries :
            orders'[e.order_id].remaining_size
                < orders[e.order_id].remaining_size
            => \A e2 \in QueueEntries :
                 HasPriority(e2, e) =>
                   /\ orders'[e2.order_id].remaining_size = 0
                   /\ orders'[e2.order_id].status = "filled"]_vars
\* an earlier order of a level was filled completely as a maker and the next
\* one of the level was then filled in part and still rests
C3_Witness ==
    \E e \in QueueEntries : \E o1 \in DOMAIN orders :
        /\ o1 < e.order_id
        /\ orders[o1].side = e.side
        /\ orders[o1].price = e.price
        /\ orders[o1].status = "filled"
        /\ WasMaker(o1)
        /\ WasMaker(e.order_id)

\* C4: the book is not crossed: when both sides have a best price, the best
\* bid is below the best ask.
C4_NotCrossed ==
    (best_bid(lob) # None /\ best_ask(lob) # None) => best_bid(lob) < best_ask(lob)
\* both sides are quoted after a limit order traded and rested its remainder
C4_Witness ==
    /\ best_bid(lob) # None
    /\ best_ask(lob) # None
    /\ \E e \in QueueEntries :
          /\ orders[e.order_id].status = "partially_filled"
          /\ ~WasMaker(e.order_id)

\* C5: every order of the index that is active or partially_filled has
\* exactly one queue entry, on its side, at its price, of its remaining size.
RestsOnce(oid) ==
    /\ Cardinality(EntriesOf(oid)) = 1
    /\ \A e \in EntriesOf(oid) :
          /\ e.side = orders[oid].side
          /\ e.price = orders[oid].price
          /\ e.size = orders[oid].remaining_size
C5_Original ==
    \A o \in DOMAIN orders :
        orders[o].status \in {"active", "partially_filled"} => RestsOnce(o)
\* C5 as amended: the same of every limit order
C5_LiveLimitOrderRests ==
    \A o \in DOMAIN orders :
        (orders[o].type = "limit"
         /\ orders[o].status \in {"active", "partially_filled"}) => RestsOnce(o)
\* a maker filled in part rests behind a rewritten entry
C5_Witness ==
    \E e \in QueueEntries :
        /\ WasMaker(e.order_id)
        /\ orders[e.order_id].status = "partially_filled"
        /\ e.size < orders[e.order_id].size

\* C6: the sizes of the fills of an order add up to its size less its
\* remaining size, canceled orders included.
C6_FillsAccountForSize ==
    \A o \in DOMAIN orders :
        FilledSize(fills, o) = orders[o].size - orders[o].remaining_size
\* an order canceled after it was filled in part
C6_Witness ==
    \E o \in DOMAIN orders :
        /\ orders[o].status = "canceled"
        /\ 0 < orders[o].remaining_size
        /\ orders[o].remaining_size < orders[o].size

\* C7: for every order of positive size, 0 <= remaining_size <= size, and
\* the status is filled exactly when remaining_size is 0, and then no queue
\* holds an entry of the order.
C7_RemainingAndFilled ==
    \A o \in DOMAIN orders :
        orders[o].size > 0 =>
            /\ 0 <= orders[o].remaining_size
            /\ orders[o].remaining_size <= orders[o].size
            /\ orders[o].status = "filled" <=> orders[o].remaining_size = 0
            /\ orders[o].status = "filled" => EntriesOf(o) = {}
\* a maker was filled completely while another order is filled in part
C7_Witness ==
    /\ \E o \in DOMAIN orders : orders[o].status = "filled" /\ WasMaker(o)
    /\ \E o \in DOMAIN orders :
          /\ 0 < orders[o].remaining_size
          /\ orders[o].remaining_size < orders[o].size

\* C8: neither bids nor asks has a price key whose queue is empty.
C8_NoEmptyLevel ==
    /\ \A p \in DOMAIN bids : bids[p] # <<>>
    /\ \A p \in DOMAIN asks : asks[p] # <<>>
\* the level of a maker that was filled completely, and the level of a
\* limit order that was canceled, are gone
C8_Witness ==
    /\ \E o \in DOMAIN orders :
          /\ orders[o].status = "filled"
          /\ WasMaker(o)
          /\ orders[o].price \notin
                DOMAIN (IF orders[o].side = "buy" THEN bids ELSE asks)
    /\ \E o \in DOMAIN orders :
          /\ orders[o].status = "canceled"
          /\ orders[o].type = "limit"
          /\ orders[o].price # None
          /\ orders[o].price \notin
                DOMAIN (IF orders[o].side = "buy" THEN bids ELSE asks)

\* C9: the list add_order returns has even length and is made of pairs, the
\* taker's fill and then the maker's fill of the same match.
C9_ReturnedInPairs ==
    /\ Len(returned) % 2 = 0
    /\ \A i \in 1 .. Len(returned) :
          i % 2 = 1 =>
             /\ returned[i].order_id = LastOrderId
             /\ returned[i + 1].order_id # LastOrderId
             /\ returned[i + 1].price = returned[i].price
             /\ returned[i + 1].size = returned[i].size

\* C10: the fill history has even length and is made of pairs, the taker's
\* fill and then the maker's (the maker is the older order), of the same price
\* and the same positive size, of opposite sides and of different orders.
C10_HistoryInPairs ==
    /\ Len(fills) % 2 = 0
    /\ \A k \in 1 .. Len(fills) :
          k % 2 = 0 =>
             LET t == fills[k - 1]
                 m == fills[k]
             IN /\ t.order_id > m.order_id
                /\ t.price = m.price
                /\ t.size = m.size
                /\ t.size > 0
                /\ {t.side, m.side} = {"buy", "sell"}
\* two matches of one taker are in the history
C10_Witness ==
    /\ Len(fills) >= 4
    /\ fills[1].order_id = fills[3].order_id

\* the order a step passed to add_order, if it passed one
NewOrders == DOMAIN orders' \ DOMAIN orders
\* the fills a step wrote to the history
NewFills == SubSeq(fills', Len(fills) + 1, Len(fills'))
\* the taker of the match whose maker's fill is fills[k]
TakerAt(k) == orders[fills[k - 1].order_id]

\* C11: both fills of a match carry the limit price of the resting maker,
\* the key of the level it sat in, whatever the price of the taker and
\* whether the taker is a limit or a market order.
C11_FillsAtMakerPrice ==
    \A k \in 1 .. Len(fills) :
        MakerFillAt(k) =>
            /\ fills[k].price = orders[fills[k].order_id].price
            /\ fills[k - 1].price = orders[fills[k].order_id].price
\* a limit taker traded at a price that is not its own, and a market taker
\* traded
C11_Witness ==
    /\ \E k \in 1 .. Len(fills) :
          /\ MakerFillAt(k)
          /\ TakerAt(k).type = "limit"
          /\ TakerAt(k).price # fills[k].price
    /\ \E k \in 1 .. Len(fills) :
          MakerFillAt(k) /\ TakerAt(k).type = "market"

\* C12: a market order passed to add_order while the opposite side is empty
\* ends rejected with nothing filled, no fill is returned, and bids, asks,
\* the fill history and the last-trade cache are as before.
C12_MarketIntoEmpty ==
    [][\A o \in NewOrders :
          (/\ orders'[o].type = "market"
           /\ DOMAIN opposite_book(lob, orders'[o].side) = {})
          => /\ orders'[o].status = "rejected"
             /\ orders'[o].remaining_size = orders'[o].size
             /\ returned' = <<>>
             /\ UNCHANGED <<bids, asks, fills, last_trade_price,
                            last_trade_size>>]_vars
\* a market order was rejected on a book that has traded and still holds
\* orders on the side of the rejected one
C12_Witness ==
    \E o \in DOMAIN orders :
        /\ orders[o].type = "market"
        /\ orders[o].status = "rejected"
        /\ fills # <<>>
        /\ last_trade_price # None
        /\ DOMAIN (IF orders[o].side = "buy" THEN bids ELSE asks) # {}

\* the sum of the remaining sizes of the orders of a set of queue entries
RECURSIVE Liquidity(_)
Liquidity(entries) ==
    IF entries = {} THEN 0
    ELSE LET e == CHOOSE x \in entries : TRUE
         IN orders[e.order_id].remaining_size + Liquidity(entries \ {e})
OppositeEntries(side) == {e \in QueueEntries : e.side # side}

\* C13: no step leaves a queue entry of a market order (and the book starts
\* empty).  A market order larger than
\* the liquidity of a non-empty opposite side (C12 has the empty one) fills
\* every resting order of that side once, in priority order, leaves the
\* side empty, and ends partially_filled with the rest of its size.
NoMarketOrderRests ==
    \A e \in QueueEntries : orders[e.order_id].type = "limit"
MarketSweeps(o) ==
    LET side == orders'[o].side
        resting == OppositeEntries(side)
    IN (/\ orders'[o].type = "market"
        /\ resting # {}
        /\ orders'[o].size > Liquidity(resting))
       => /\ DOMAIN (IF side = "buy" THEN asks' ELSE bids') = {}
          /\ \A e \in resting :
                /\ orders'[e.order_id].status = "filled"
                /\ orders'[e.order_id].remaining_size = 0
          /\ Len(NewFills) = 2 * Cardinality(resting)
          /\ \A k, k2 \in 1 .. Len(NewFills) :
                (k % 2 = 0 /\ k2 % 2 = 0 /\ k < k2) =>
                   \E e \in EntriesOf(NewFills[k].order_id) :
                      \E e2 \in EntriesOf(NewFills[k2].order_id) :
                         HasPriority(e, e2)
          /\ orders'[o].status = "partially_filled"
          /\ orders'[o].remaining_size = orders'[o].size - Liquidity(resting)
          /\ orders'[o].remaining_size > 0
C13_MarketNeverRests ==
    [][NoMarketOrderRests' /\ \A o \in NewOrders : MarketSweeps(o)]_vars
\* a market order took two levels, has size left, and the side it took is
\* empty
C13_Witness ==
    \E o \in DOMAIN orders :
        /\ orders[o].type = "market"
        /\ orders[o].status = "partially_filled"
        /\ orders[o].remaining_size > 0
        /\ DOMAIN opposite_book(lob, orders[o].side) = {}
        /\ \E k, k2 \in 1 .. Len(fills) :
              /\ fills[k].order_id = o
              /\ fills[k2].order_id = o
              /\ fills[k].price # fills[k2].price

\* C14: a limit order (with a price) that has size left when add_order is
\* done with it is the last entry of the queue of its own side at its price,
\* a multiple of the tick, behind the entries that were there, with its
\* remaining size; it is active if it was not filled at all and
\* partially_filled if it was.
C14_RemainderRests ==
    [][\A o \in NewOrders :
          LET order == orders'[o]
              own == IF order.side = "buy" THEN bids ELSE asks
              queue == IF order.price \in DOMAIN own THEN own[order.price]
                       ELSE <<>>
          IN (/\ order.type = "limit"
              /\ order.price # None
              /\ order.remaining_size > 0)
             => /\ order.price % PriceScale = 0
                /\ order.price \in
                       DOMAIN (IF order.side = "buy" THEN bids' ELSE asks')
                /\ (IF order.side = "buy" THEN bids' ELSE asks')[order.price]
                       = Append(queue, <<o, order.remaining_size>>)
                /\ order.status = IF FilledSize(NewFills, o) = 0
                                  THEN "active" ELSE "partially_filled"]_vars
\* a limit order rests what a match left of it, and an untouched limit order
\* waits behind another at one level
C14_Witness ==
    /\ \E e \in QueueEntries :
          /\ FilledSize(fills, e.order_id) > 0
          /\ ~WasMaker(e.order_id)
          /\ e.size = orders[e.order_id].remaining_size
          /\ orders[e.order_id].status = "partially_filled"
    /\ \E e \in QueueEntries :
          e.pos = 2 /\ orders[e.order_id].status = "active"

\* C15: a cancel succeeds only for an order that has an entry in a queue;
\* the status of an order that has none is not changed by a cancel.
C15_CancelOnlyResting ==
    [][\A o \in DOMAIN orders :
          (orders'[o].status = "canceled" /\ orders[o].status # "canceled")
          => EntriesOf(o) # {}]_vars

\* C16: cancel_order of a filled order returns false and leaves the queues,
\* the order records, the fill history and the last trade as they are, and
\* so does the same call made again.
C16_CancelFilledRefused ==
    \A o \in DOMAIN orders :
        orders[o].status = "filled" =>
            /\ cancel_order(lob, o) = [lob |-> lob, ok |-> FALSE]
            /\ cancel_order(cancel_order(lob, o).lob, o)
                  = [lob |-> lob, ok |-> FALSE]
\* a filled taker and a filled maker, while another order rests and one has
\* been canceled
C16_Witness ==
    /\ \E o \in DOMAIN orders : orders[o].status = "filled" /\ WasMaker(o)
    /\ \E o \in DOMAIN orders : orders[o].status = "filled" /\ ~WasMaker(o)
    /\ \E o \in DOMAIN orders : orders[o].status = "canceled"

\* C17: a step leaves the status and the remaining size of every order that
\* is filled, canceled or rejected as they are, and writes no fill of it.
C17_TerminalImmutable ==
    [][\A o \in DOMAIN orders :
          orders[o].status \in {"filled", "canceled", "rejected"}
          => /\ orders'[o].status = orders[o].status
             /\ orders'[o].remaining_size = orders[o].remaining_size
             /\ \A i \in 1 .. Len(NewFills) :
                   NewFills[i].order_id # o]_vars

\* the fills of a client in a list of fills: sizes added up, bought less
\* sold, and the money they brought in, sold less bought
RECURSIVE NetFilled(_, _)
NetFilled(seq, c) ==
    IF seq = <<>> THEN 0
    ELSE (IF Head(seq).client_id # c THEN 0
          ELSE IF Head(seq).side = "buy" THEN Head(seq).size
          ELSE 0 - Head(seq).size)
         + NetFilled(Tail(seq), c)
RECURSIVE CashFlow(_, _)
CashFlow(seq, c) ==
    IF seq = <<>> THEN 0
    ELSE (IF Head(seq).client_id # c THEN 0
          ELSE IF Head(seq).side = "buy"
               THEN 0 - Head(seq).price * Head(seq).size
          ELSE Head(seq).price * Head(seq).size)
         + CashFlow(Tail(seq), c)
Position(c) ==
    IF c \in DOMAIN client_states THEN client_states[c].position ELSE 0

\* C18: between two requests, as long as every fill of the history came
\* from a POST /order of a client matched with an order of a client, the
\* risk position of every client is the sum of the signed sizes of its
\* fills in the history, those it got as a taker and those it got as a
\* maker.
C18_PositionFromFills ==
    (\A i \in 1 .. Len(fills) : fills[i].client_id \in Clients)
    => \A c \in Clients : Position(c) = NetFilled(fills, c)

\* C19: the risk state follows the money as well as the position: when the
\* fills of a client leave it flat with a loss above max_daily_loss, its
\* realized_pnl is that loss, and a request of it that gets as far as the
\* daily-loss check is refused there and leaves the client blocked.
C19_LossBlocks ==
    \A c \in Clients :
        (NetFilled(fills, c) = 0 /\ CashFlow(fills, c) < 0 - max_daily_loss)
        => /\ c \in DOMAIN client_states
           /\ client_states[c].realized_pnl = CashFlow(fills, c)
           /\ \A s \in Sides, z \in RequestSizes :
                 LET v == validate_order(client_states, now, c, s, z, None,
                                         mid_price2(lob))
                 IN v.reason \notin {"rate", "size", "position", "price"}
                    => /\ ~v.valid
                       /\ v.states[c].is_blocked

\* what validate_order has to answer, from what each check says of the
\* state the request finds
FirstFailing(cs, t, c, s, z, p, mid2) ==
    LET cs0 == get_or_create_state(cs, c)
    IN IF cs0[c].is_blocked THEN "blocked"
       ELSE IF ~check_order_rate(cs0, t, c).valid THEN "rate"
       ELSE IF ~check_order_size(z) THEN "size"
       ELSE IF ~check_position_limit(cs0, c, s, z) THEN "position"
       ELSE IF p # None /\ mid2 # None /\ ~check_price_bounds(p, mid2)
       THEN "price"
       ELSE IF ~check_daily_loss(cs0, c).valid THEN "daily_loss"
       ELSE ""
\* C20: the answer of validate_order is that of the first check that fails
\* in the order blocked, rate, size, position, price, daily loss, and the
\* checks after it leave no trace: a request refused as blocked changes
\* nothing, any other leaves what the rate check wrote, and is_blocked is
\* set only when the daily-loss check is the one that refuses.
C20_FirstFailingCheck ==
    \A c \in Clients, s \in Sides, z \in RequestSizes, p \in RequestPrices,
       m \in MidPrices2 :
        LET v == validate_order(client_states, now, c, s, z, p, m)
            cs0 == get_or_create_state(client_states, c)
            rated == check_order_rate(cs0, now, c).states
            first == FirstFailing(client_states, now, c, s, z, p, m)
        IN /\ v.reason = first
           /\ v.valid <=> first = ""
           /\ v.states = IF first = "blocked" THEN cs0
                         ELSE IF first = "daily_loss"
                         THEN [rated EXCEPT ![c].is_blocked = TRUE]
                         ELSE rated
\* a request got past the rate check after the clock moved and was refused
\* before the daily-loss check, which would have refused it too: the client
\* is over the loss limit and at the position limit, and is not blocked
C20_Witness ==
    /\ now = TimeResolution + MaxTime
    /\ "A" \in DOMAIN client_states
    /\ client_states["A"].last_order_time = now
    /\ client_states["A"].realized_pnl < 0 - max_daily_loss
    /\ client_states["A"].position = max_position
    /\ ~client_states["A"].is_blocked

\* the limit order o2 crosses the price p of the other side
CrossesPrice(o2, p) ==
    IF o2.side = "buy" THEN o2.price >= p ELSE o2.price <= p

\* C28: round trip.  A limit order o1 rests in full and a limit order o2 of
\* the other side, of the same size, at a price that crosses o1 and no other
\* resting order, is added: both end filled with nothing left, two fills
\* are written, and the queues are those before o1 came.
C28_RoundTrip ==
    [][\A o2 \in NewOrders : \A o1 \in DOMAIN orders :
          (/\ orders'[o2].type = "limit" /\ orders'[o2].price # None
           /\ orders[o1].type = "limit"
           /\ orders[o1].status = "active"
           /\ orders[o1].remaining_size = orders[o1].size
           /\ EntriesOf(o1) # {}
           /\ orders'[o2].side # orders[o1].side
           /\ orders'[o2].size = orders[o1].size
           /\ \A e \in OppositeEntries(orders'[o2].side) :
                 CrossesPrice(orders'[o2], e.price) <=> e.order_id = o1)
          => /\ orders'[o1].status = "filled"
             /\ orders'[o1].remaining_size = 0
             /\ orders'[o2].status = "filled"
             /\ orders'[o2].remaining_size = 0
             /\ Len(NewFills) = 2
             /\ QueueEntries' = QueueEntries \ EntriesOf(o1)]_vars
\* the last two orders are limit orders of one size above 1 that filled each
\* other, and an older order still rests
C28_Witness ==
    /\ LastOrderId >= 3
    /\ LET o2 == orders[LastOrderId]
           o1 == orders[LastOrderId - 1]
       IN /\ o1.type = "limit" /\ o2.type = "limit"
          /\ o1.side # o2.side
          /\ o1.size = o2.size /\ o1.size > 1
          /\ o1.status = "filled" /\ o2.status = "filled"
          /\ Len(fills) = 2
          /\ fills[1].order_id = o2.order_id
          /\ fills[2].order_id = o1.order_id
    /\ QueueEntries # {}

\* C29: the mid price is the mean of the best bid and the best ask when both
\* sides hold orders; otherwise it is the price of the latest fill of the
\* history when there is one; otherwise it is None.  (mid_price2 is twice
\* the mid.)
C29_MidPrice ==
    mid_price2(lob) =
        IF DOMAIN bids # {} /\ DOMAIN asks # {}
        THEN SetMax(DOMAIN bids) + SetMin(DOMAIN asks)
        ELSE IF fills # <<>> THEN 2 * fills[Len(fills)].price
        ELSE None
\* one side is empty after matches at two prices
C29_Witness ==
    /\ DOMAIN bids = {} \/ DOMAIN asks = {}
    /\ DOMAIN bids # {} \/ DOMAIN asks # {}
    /\ Len(fills) >= 4
    /\ fills[1].price # fills[Len(fills)].price

\* the orders resting at a price on a side
RestingAt(side, p) == {e \in QueueEntries : e.side = side /\ e.price = p}
DepthLevels == 0 .. (PriceSpan \div PriceScale) + 2

\* C30: get_depth(side, n) has one pair for each of the first n price levels
\* of the side (all of them when there are fewer), best price first, bids
\* downwards and asks upwards, and the total of a pair is the sum of the
\* remaining sizes of the orders resting at its price.
C30_Depth ==
    \A side \in Sides, n \in DepthLevels :
        LET d == get_depth(lob, side, n)
            book == IF side = "buy" THEN bids ELSE asks
        IN /\ Len(d) = Min(n, Cardinality(DOMAIN book))
           /\ \A i \in 1 .. Len(d) :
                 /\ d[i][1] \in DOMAIN book
                 /\ Cardinality({p \in DOMAIN book :
                        IF side = "buy" THEN p > d[i][1] ELSE p < d[i][1]})
                       = i - 1
                 /\ d[i][2] = Liquidity(RestingAt(side, d[i][1]))
\* a side has two levels, one of them with two orders of different sizes
C30_Witness ==
    \E side \in Sides :
        /\ Len(get_depth(lob, side, 1)) = 1
        /\ Len(get_depth(lob, side, 3)) = 2
        /\ \E e1, e2 \in QueueEntries :
              /\ e1.side = side /\ e2.side = side
              /\ e1.price = e2.price
              /\ e1.pos = 1 /\ e2.pos = 2
              /\ orders[e1.order_id].remaining_size
                    # orders[e2.order_id].remaining_size

\* ResetDaily, as a step
IsResetDaily == client_states' = reset_daily(client_states)

\* validate_order refuses every request of c as blocked and changes nothing
RefusedAsBlocked(c) ==
    \A s \in Sides, z \in RequestSizes, p \in RequestPrices, m \in MidPrices2 :
        validate_order(client_states, now, c, s, z, p, m)
            = [valid |-> FALSE, reason |-> "blocked", states |-> client_states]

\* C21 as stated: a client that is blocked is blocked after every step.
C21_BlockedSticky ==
    [][\A c \in DOMAIN client_states :
          client_states[c].is_blocked => client_states'[c].is_blocked]_vars

\* C21, amended: while a client is blocked every validate_order of it is
\* refused as blocked and leaves the risk state (rate counter, position) as
\* it is, and the client is still blocked after every step that is not
\* reset_daily.
C21_BlockedUntilReset ==
    [][\A c \in DOMAIN client_states :
          client_states[c].is_blocked
          => /\ RefusedAsBlocked(c)
             /\ client_states'[c].is_blocked \/ IsResetDaily]_vars
\* a client that lost more than max_daily_loss got through the rate check
\* after the clock had moved, is blocked, and time has passed since
C21_Witness ==
    \E c \in DOMAIN client_states :
        /\ client_states[c].is_blocked
        /\ client_states[c].realized_pnl < 0 - max_daily_loss
        /\ client_states[c].last_order_time > TimeResolution
        /\ client_states[c].last_order_time < now
        /\ client_states[c].order_count > 0

\* the requests of c that got through the rate check in [w, w + 1 second)
PassedIn(c, w) ==
    {i \in 1 .. Len(passed) :
        /\ passed[i].client_id = c
        /\ passed[i].time >= w
        /\ passed[i].time < w + TimeResolution}

\* C22: in no interval of one second do more than max_order_rate requests
\* of one client get through the rate check, and when max_order_rate of
\* them got through in the second that ends now, the next request of a
\* client that is not blocked is refused as rate-limited.
C22_RateWindow ==
    \A c \in Clients :
        /\ \A w \in 0 .. now : Cardinality(PassedIn(c, w)) <= max_order_rate
        /\ (/\ Cardinality(PassedIn(c, now - TimeResolution + 1))
                   = max_order_rate
            /\ ~client_states[c].is_blocked)
           => \A s \in Sides, z \in RequestSizes, p \in RequestPrices :
                 validate_order(client_states, now, c, s, z, p,
                                mid_price2(lob)).reason = "rate"
\* max_order_rate requests got through in a second that lies across two
\* counting periods, and one more a second after the first of them
C22_Witness ==
    \E c \in Clients :
        /\ Len(passed) = max_order_rate + 1
        /\ passed[1].time < passed[max_order_rate].time
        /\ passed[max_order_rate + 1].time
              = passed[max_order_rate].time + TimeResolution
        /\ \A i \in 1 .. Len(passed) : passed[i].client_id = c

\* how many times x is in seq
Count(seq, x) == Cardinality({i \in 1 .. Len(seq) : seq[i] = x})

\* no POST /order is in progress and no replay is
Quiescent ==
    /\ \A h \in Handlers : handlers[h].pc \notin {"validated", "sending"}
    /\ \A w \in FillSockets : sockets[w].pc # "replay"

\* C23: each fill of a client, of the taker or of the maker, is delivered
\* once and only once to every connected subscriber of the client's fills,
\* by the replay at connection or by the push: when nothing is in progress
\* a subscriber with an open link has every fill of its client once.
C23_ExactlyOnce ==
    Quiescent =>
        \A w \in FillSockets :
            sockets[w].pc = "alive" /\ link[w] = "open" =>
                \A k \in 1 .. Len(fills) :
                    fills[k].client_id = sockets[w].client_id
                    => Count(received[w], k) = 1

\* C24: a handler that has read the mid price and passed the risk check is
\* the next to touch anything: the step after is its own add_order, on the
\* book whose mid price it validated against, so validation and matching
\* are one transaction and requests are matched in the order they start.
C24_ValidateThenMatch ==
    [][\A h \in Handlers :
          handlers[h].pc = "validated"
          => /\ handlers'[h].pc # "validated"
             /\ handlers[h].mid = mid_price2(lob)
             /\ NewOrders = {NewOrderId}
             /\ orders'[NewOrderId].client_id = handlers[h].order.client_id
             /\ orders'[NewOrderId].side = handlers[h].order.side
             /\ orders'[NewOrderId].size = handlers[h].order.size
             /\ \A g \in Handlers \ {h} : handlers'[g] = handlers[g]]_vars
\* a request has passed the risk check against a mid price while another
\* request is in the middle of its pushes
C24_Witness ==
    \E h, g \in Handlers :
        /\ handlers[h].pc = "validated"
        /\ handlers[h].mid # None
        /\ handlers[g].pc = "sending"
        /\ running = h

\* the snapshot s shows the book as it is: every level of a side, best
\* first, with the sum of what its resting orders have left, no empty
\* level, and the best prices, mid and spread of that book
ShowsSide(d, side, book) ==
    /\ Len(d) = Cardinality(DOMAIN book)
    /\ \A i \in 1 .. Len(d) :
          /\ d[i][1] \in DOMAIN book
          /\ Cardinality({p \in DOMAIN book :
                 IF side = "buy" THEN p > d[i][1] ELSE p < d[i][1]}) = i - 1
          /\ d[i][2] = Liquidity(RestingAt(side, d[i][1]))
          /\ d[i][2] > 0
ShowsBook(s) ==
    /\ ShowsSide(s.bids, "buy", bids)
    /\ ShowsSide(s.asks, "sell", asks)
    /\ s.best_bid = (IF DOMAIN bids = {} THEN None ELSE SetMax(DOMAIN bids))
    /\ s.best_ask = (IF DOMAIN asks = {} THEN None ELSE SetMin(DOMAIN asks))
    /\ s.best_bid # None /\ s.best_ask # None => s.best_bid < s.best_ask
    /\ s.mid2 = (IF DOMAIN bids # {} /\ DOMAIN asks # {}
                 THEN SetMax(DOMAIN bids) + SetMin(DOMAIN asks)
                 ELSE IF fills # <<>> THEN 2 * fills[Len(fills)].price
                 ELSE None)
    /\ s.spread = (IF DOMAIN bids # {} /\ DOMAIN asks # {}
                   THEN SetMin(DOMAIN asks) - SetMax(DOMAIN bids)
                   ELSE None)

\* C25: a snapshot is taken of a book no mutation is half way through: the
\* one the generator takes for a broadcast, the one a /ws/md socket is
\* greeted with and the one GET /book answers with each show the book of
\* the state they are taken in, and every message a /ws/md peer gets is such
\* a snapshot, unchanged by what happened to the book in between.
C25_SnapshotComplete ==
    [][/\ gen'.rounds # gen.rounds => ShowsBook(gen.snapshot)'
       /\ book_reply' # book_reply => ShowsBook(book_reply)'
       /\ \A w \in MdSockets :
             /\ sockets[w].pc = "new" /\ sockets'[w].pc = "initial"
                => ShowsBook(Head(sockets[w].pending))'
             /\ received'[w] # received[w]
                => received'[w] =
                      Append(received[w],
                             IF sockets[w].pc = "initial"
                                /\ sockets'[w].pc = "alive"
                             THEN Head(sockets[w].pending)
                             ELSE gen.snapshot)]_vars
\* a peer has got two different snapshots, and the generator is in a
\* broadcast of a snapshot that a match has since overtaken
C25_Witness ==
    /\ gen.pc = "sending"
    /\ ~ShowsBook(gen.snapshot)
    /\ fills # <<>>
    /\ \E w \in MdSockets :
          /\ Len(received[w]) >= 2
          /\ received[w][1] # received[w][2]

\* C26: a subscriber that does not take its message does not hold the
\* broadcast: when the generator is sending to a socket whose send does not
\* return, the broadcast still comes to its end and the socket is off the
\* list.
C26_SlowSubscriberDropped ==
    \A w \in MdSockets :
        (gen.pc = "sending" /\ gen.ws = w /\ link[w] = "stuck")
            ~> (gen.pc = "sleep" /\ ~in_list(md_subscribers, w))

\* the push a handler is in ends with this step
PushEnds(h) ==
    /\ handlers[h].pc = "sending"
    /\ handlers'[h].pc # "sending" \/ handlers'[h].j # handlers[h].j

\* C27: when the push of a fill ends, every socket whose send failed in it
\* is off the client's list, every socket that was on the list when it began
\* and has an open link has got the message, the handler has not raised,
\* and the eviction has left the book and the risk state alone.
C27_FailedSendEvicted ==
    [][\A h \in Handlers :
          PushEnds(h)
          => /\ handlers'[h].pc # "raised"
             /\ \A i \in 1 .. Len(after_send(handlers[h]).disconnected) :
                   ~in_list(fill_subscribers'[fills[fill_index(handlers[h])]
                                                  .client_id],
                            after_send(handlers[h]).disconnected[i])
             /\ \A i \in 1 .. Len(handlers[h].targets) :
                   link[handlers[h].targets[i]] = "open"
                   => Count(received'[handlers[h].targets[i]],
                            fill_index(handlers[h])) >= 1
             /\ UNCHANGED book_vars
             /\ handlers'[h].j = handlers[h].j
                => UNCHANGED client_states]_vars

\* C31: every queue entry names an order of the index, of the side and the
\* price of the queue, active or partially_filled, whose remaining size is
\* positive and is the size the entry stores; no order has two entries.
C31_NoDanglingEntry ==
    \A e \in QueueEntries :
        /\ e.order_id \in DOMAIN orders
        /\ orders[e.order_id].side = e.side
        /\ orders[e.order_id].price = e.price
        /\ orders[e.order_id].status \in {"active", "partially_filled"}
        /\ orders[e.order_id].remaining_size > 0
        /\ orders[e.order_id].remaining_size = e.size
        /\ Cardinality(EntriesOf(e.order_id)) = 1
\* a maker filled in part still rests, and an order that rested at the same
\* price on the same side has been canceled
C31_Witness ==
    \E e \in QueueEntries : \E o \in DOMAIN orders :
        /\ WasMaker(e.order_id)
        /\ e.size < orders[e.order_id].size
        /\ orders[o].status = "canceled"
        /\ orders[o].type = "limit"
        /\ orders[o].side = e.side
        /\ orders[o].price = e.price

\* C32: within a price level the order submitted earlier (order ids are
\* handed out in the order of submission) is nearer to the head.
C32_ArrivalOrder ==
    \A e1 \in QueueEntries : \A e2 \in QueueEntries :
        (e1.side = e2.side /\ e1.price = e2.price
         /\ e1.order_id < e2.order_id) => e1.pos < e2.pos
\* the head of a level was filled in part and a later order waits behind it
C32_Witness ==
    \E e1 \in QueueEntries : \E e2 \in QueueEntries :
        /\ e1.side = e2.side
        /\ e1.price = e2.price
        /\ e1.pos = 1
        /\ e2.pos = 2
        /\ WasMaker(e1.order_id)
        /\ orders[e1.order_id].status = "partially_filled"

\* C33: the last-trade cache holds the price and the size of the latest
\* pair of fills of the history, the price is unset exactly when the history
\* is empty, and a cancel or a refused submission leaves the cache alone.
LastTradeIsLastFill ==
    /\ last_trade_price = None <=> fills = <<>>
    /\ fills # <<>> =>
          /\ Len(fills) >= 2
          /\ \A k \in {Len(fills) - 1, Len(fills)} :
                /\ fills[k].price = last_trade_price
                /\ fills[k].size = last_trade_size
C33_LastTrade ==
    /\ []LastTradeIsLastFill
    /\ [][(\/ \E id \in DOMAIN orders \cup {UnknownId} : CancelOrder(id)
           \/ DOMAIN orders' = DOMAIN orders
           \/ \E o \in NewOrders : orders'[o].status = "rejected")
          => UNCHANGED <<last_trade_price, last_trade_size>>]_vars
\* two trades of different prices and sizes, the later one cached, and an
\* order canceled
C33_Witness ==
    /\ Len(fills) >= 4
    /\ fills[Len(fills)].price # fills[Len(fills) - 2].price
    /\ fills[Len(fills)].size # fills[Len(fills) - 2].size
    /\ last_trade_price = fills[Len(fills)].price
    /\ \E o \in DOMAIN orders : orders[o].status = "canceled"

\* a queue entry without its place, and the entries of the orders other
\* than oid
Unplaced(e) ==
    [side |-> e.side, price |-> e.price, order_id |-> e.order_id,
     size |-> e.size]
OtherEntries(oid) == {Unplaced(e) : e \in {x \in QueueEntries : x.order_id # oid}}
\* e1 is before e2 in a queue
Before(e1, e2) ==
    e1.side = e2.side /\ e1.price = e2.price /\ e1.pos < e2.pos

\* C37: a cancel that succeeds takes the entry of its target out of the
\* queues and sets its status to canceled, leaves the target's other fields,
\* the fill history and the last-trade cache as they are, and leaves every
\* other order its record, its entry and its place relative to the others.
C37_CancelFrame ==
    [][\A id \in DOMAIN orders :
          (cancel_order(lob, id).ok /\ CancelOrder(id))
          => /\ orders' = [orders EXCEPT ![id].status = "canceled"]
             /\ fills' = fills
             /\ UNCHANGED <<last_trade_price, last_trade_size>>
             /\ EntriesOf(id)' = {}
             /\ OtherEntries(id)' = OtherEntries(id)
             /\ \A e1 \in QueueEntries' : \A e2 \in QueueEntries' :
                   Before(e1, e2)
                   => \E d1 \in QueueEntries : \E d2 \in QueueEntries :
                         /\ Unplaced(d1) = Unplaced(e1)
                         /\ Unplaced(d2) = Unplaced(e2)
                         /\ Before(d1, d2)]_vars
\* an order was canceled from between two orders of its level, which rest
C37_Witness ==
    \E o \in DOMAIN orders :
        /\ orders[o].status = "canceled"
        /\ orders[o].remaining_size > 0
        /\ \E e1 \in QueueEntries : \E e2 \in QueueEntries :
              /\ Before(e1, e2)
              /\ e1.side = orders[o].side
              /\ e1.price = orders[o].price
              /\ e1.order_id < o
              /\ o < e2.order_id

\* the limit orders add_order may be given, and the test of
\* _add_limit_order on the order's price as quantized
LimitPrices == BasePrice .. BasePrice + PriceSpan
NotCrossing(side, price) ==
    \/ DOMAIN opposite_book(lob, side) = {}
    \/ ~crosses(side, round_price(price), opposite_book(lob, side))
AddThenCancel(c, side, price, size) ==
    cancel_order(add_order(lob, Order(NewOrderId, c, side, "limit", price,
                                      size)).lob, NewOrderId)

\* C38: on every book, add_order of a limit order that does not cross and
\* then cancel_order of it gives back the bid and ask maps and the fill
\* history as they were.
C38_AddCancelRoundTrip ==
    \A c \in Clients, side \in Sides, price \in LimitPrices,
       size \in RequestSizes :
        NotCrossing(side, price)
        => /\ AddThenCancel(c, side, price, size).lob.bids = bids
           /\ AddThenCancel(c, side, price, size).lob.asks = asks
           /\ AddThenCancel(c, side, price, size).lob.fills = fills
\* both sides are quoted after a trade, a buy order at the best bid joins
\* the queue there, and an odd price is quantized to the price of a level
C38_Witness ==
    /\ fills # <<>>
    /\ best_bid(lob) # None
    /\ best_ask(lob) # None
    /\ NotCrossing("buy", best_bid(lob))
    /\ NotCrossing("buy", best_bid(lob) + 1)
    /\ Len(add_order(lob, Order(NewOrderId, "A", "buy", "limit",
                                best_bid(lob), 1)).lob.bids[best_bid(lob)]) = 2
    /\ Len(add_order(lob, Order(NewOrderId, "A", "buy", "limit",
                                best_bid(lob) + 1, 2)).lob.bids[best_bid(lob)])
          = 2

\* the requests of c that got through the rate check, and one made now,
\* that fall in the second from w to w + TimeResolution, both ends included
RequestsIn(c, w) ==
    Cardinality({i \in 1 .. Len(passed) :
                    /\ passed[i].client_id = c
                    /\ passed[i].time >= w
                    /\ passed[i].time <= w + TimeResolution})
    + (IF now >= w /\ now <= w + TimeResolution THEN 1 ELSE 0)
\* with a request made now, c has made at most max_order_rate requests in
\* every second (a request refused as rate-limited changes nothing, so the
\* log holds every request of a client that was never refused)
WithinRate(c) ==
    \A w \in 0 .. now : RequestsIn(c, w) <= max_order_rate

\* C36: a client that makes at most max_order_rate requests in every second
\* is not refused as rate-limited, however short the gaps between its
\* requests are.
C36_WithinRateNotRefused ==
    \A c \in Clients :
        WithinRate(c)
        => \A s \in Sides :
              validate_order(client_states, now, c, s, 1, None,
                             mid_price2(lob)).reason # "rate"

\* C34: the position the risk manager holds for a client is never beyond
\* max_position in either direction, whatever the handlers in progress.
C34_PositionWithinLimit ==
    \A c \in DOMAIN client_states :
        Abs(client_states[c].position) <= max_position

\* C35: the removal of a dead subscriber never fails, whoever else has
\* removed it: no handler ends with an exception out of _push_fill, and a
\* handler that has ended after its order was matched has applied every
\* fill add_order returned to it.
C35_EvictionSafe ==
    \A h \in Handlers :
        /\ handlers[h].pc # "raised"
        /\ handlers[h].pc \in {"returned", "raised"}
           => handlers[h].j = handlers[h].n

====
